---- MODULE Spec2Model ----
(***************************************************************************)
(* Model of the inventory API: category normalisation, the error           *)
(* translator, single-item data access with optimistic concurrency, the    *)
(* service wrappers, and the per-category batch fan-out.                   *)
(*                                                                         *)
(* Strings that the code transforms (categories) are sequences of          *)
(* one-character strings; error messages are sequences of phrases.         *)
(* Field values are tagged records [t, v] so that a Decimal, a float, an   *)
(* int, a str and None stay distinguishable.                               *)
(***************************************************************************)
EXTENDS Integers, Sequences, FiniteSets, TLC

VARIABLES
    store,      \* the container: the set of stored documents
    nextId,     \* number of ids drawn from uuid4 so far
    nextEtag,   \* number of etags the storage has assigned so far
    now,        \* the clock read by datetime.now
    held,       \* per client: the product it last read (or NoDoc)
    resp,       \* per client: what its last data-access call did
    tr,         \* the last failure handled by an except-path: input and error raised
    request,    \* the batch request being served (or NoRequest)
    groups,     \* items_by_category, in insertion order
    tasks,      \* the partition tasks, in submission order
    calls,      \* the storage batch calls issued so far
    finished,   \* indices of the tasks in the order they finished
    mainPc,     \* position of the batch operation's coroutine
    outcome,    \* what the batch operation returned or raised
    issued,     \* the storage call of the last single-item or list request
    listing,    \* the last list request: its arguments and the page returned
    applied,    \* the last call of a helper: its name and argument
    returned,   \* what that call returned or raised
    client,     \* db._client: the storage client of the process (or NoClient)
    constructed, \* how many storage clients the process has constructed
    containers, \* db._containers: the cached proxy of each container name
    proxies,    \* how many container proxies have been created
    coroutine,  \* per request: the position of its get_container call
    running     \* the requests whose coroutine holds the event loop: one or none

vars == <<store, nextId, nextEtag, now, held, resp, tr,
          request, groups, tasks, calls, finished, mainPc, outcome,
          issued, listing, applied, returned,
          client, constructed, containers, proxies, coroutine, running>>

crudVars  == <<store, nextId, nextEtag, now, held, resp>>
batchVars == <<request, groups, tasks, calls, finished, mainPc, outcome>>
listVars  == <<listing>>
helperVars == <<applied, returned>>
dbVars    == <<client, constructed, containers, proxies, coroutine, running>>

---------------------------------------------------------------------------
(* Bounds of the model *)

MaxClock == 4       \* requests per behaviour (each reads the clock)
MaxOccClock == 5    \* requests per behaviour of the read-then-update scenario
MaxItems == 3       \* items in one batch request

---------------------------------------------------------------------------
(* Strings: str.lower and str.strip *)

LowerChar(c) ==
    CASE c = "G" -> "g"
      [] c = "T" -> "t"
      [] OTHER   -> c

lower(s) == [i \in DOMAIN s |-> LowerChar(s[i])]

RECURSIVE lstrip(_)
lstrip(s) == IF s # <<>> /\ Head(s) = " " THEN lstrip(Tail(s)) ELSE s

RECURSIVE rstrip(_)
rstrip(s) ==
    IF s # <<>> /\ s[Len(s)] = " " THEN rstrip(SubSeq(s, 1, Len(s) - 1)) ELSE s

strip(s) == rstrip(lstrip(s))

\* the category used as the client wrote it
normalize_category_verbatim(category) ==
    [ok |-> category # <<>>, raises |-> "", value |-> category]

\* normalize_category: a result, or the ValueError it raises
normalize_category(category) ==
    IF category = <<>>
    THEN [ok |-> FALSE, raises |-> "ValueError", value |-> <<>>]
    ELSE [ok |-> TRUE, raises |-> "", value |-> strip(lower(category))]

\* category strings a client may send in an identifier (no stripping there)
RawCategories == { <<"G">>, <<"g">>, <<" ", "g">>, <<"T">>, <<>> }

\* Product.category: str_strip_whitespace, then min_length 1
ProductCategoryValid(category) == strip(category) = category /\ Len(category) >= 1

CreateCategories == { c \in RawCategories : ProductCategoryValid(c) }

---------------------------------------------------------------------------
(* Field values *)

\* A value is [t: its Python type, v: its text].  The category alone is kept
\* as a bare character sequence, because the code transforms it.
StrV(s) == [t |-> "str", v |-> s]
IntV(s) == [t |-> "int", v |-> s]
DecV(s) == [t |-> "Decimal", v |-> s]
FltV(s) == [t |-> "float", v |-> s]
None    == [t |-> "None", v |-> "None"]
Unset   == [t |-> "unset", v |-> "unset"]

\* ProductStatus
ACTIVE   == StrV("active")
INACTIVE == StrV("inactive")

\* prepare_decimals_for_cosmos_db on a flat dict: Decimal -> float
prepare_decimals_for_cosmos_db(data) ==
    [k \in DOMAIN data |->
        IF k # "category" /\ data[k].t = "Decimal" THEN FltV(data[k].v) ELSE data[k]]

---------------------------------------------------------------------------
(* Exceptions *)

\* Exceptions raised by the storage client or by the runtime.  The subclasses
\* of CosmosHttpResponseError that the client raises (not found, exists,
\* access condition failed) pass the same isinstance test and are not told
\* apart.  `origin` identifies the exception object by the call that raised it.
StorageError(type, status_code, message, error_index, origin) ==
    [type |-> type, status_code |-> status_code, message |-> message,
     error_index |-> error_index, origin |-> origin]

CosmosHttpResponseError(status_code, message, origin) ==
    StorageError("CosmosHttpResponseError", status_code, message, -1, origin)

CosmosBatchOperationError(status_code, message, error_index, origin) ==
    StorageError("CosmosBatchOperationError", status_code, message, error_index, origin)

ServiceRequestError(origin) ==
    StorageError("ServiceRequestError", 0, <<"nodename nor servname provided">>, -1, origin)

ValidationError(origin) ==
    StorageError("ValidationError", 0, <<"validation error">>, -1, origin)

TypeError(origin) ==
    StorageError("TypeError", 0, <<"unexpected keyword argument">>, -1, origin)

\* ApplicationError subclasses (class attribute status_code)
AppStatus(type) ==
    CASE type = "ProductNotFoundError"      -> 404
      [] type = "ProductAlreadyExistsError" -> 409
      [] type = "ProductDuplicateSKUError"  -> 409
      [] type = "PreconditionFailedError"   -> 412
      [] type = "DatabaseError"             -> 500

ApplicationErrors ==
    { "ProductNotFoundError", "ProductAlreadyExistsError", "ProductDuplicateSKUError",
      "PreconditionFailedError", "DatabaseError" }

\* raise <type>(<message>) from cause; `about` is the product id, SKU or name
\* that the message quotes
Raise(type, about, cause) ==
    [type |-> type, status_code |-> AppStatus(type), about |-> about,
     cause |-> cause, origin |-> cause.origin]

\* str.lower on a message, phrase by phrase
LowerPhrase(p) ==
    CASE p = "Unique index constraint" -> "unique index constraint"
      [] p = "/SKU"                    -> "/sku"
      [] OTHER                         -> p

Contains(message, phrase) == \E i \in DOMAIN message : message[i] = phrase

\* the message compared as the storage sent it
MessageLower_verbatim(message) == message

MessageLower(message) == [i \in DOMAIN message |-> LowerPhrase(message[i])]

\* context.get(key, default) on the keyword context
CtxGet(context, key, default) ==
    IF key \in DOMAIN context THEN context[key] ELSE default

Unknown == StrV("unknown")

\* the 409 branch shared by the batch and the single-item rules
ConflictError(e, context) ==
    LET error_message == MessageLower(e.message) IN
    IF Contains(error_message, "unique index constraint") /\ Contains(error_message, "/sku")
    THEN Raise("ProductDuplicateSKUError", <<CtxGet(context, "sku", Unknown)>>, e)
    ELSE IF CtxGet(context, "sku", None) # None
         THEN Raise("ProductAlreadyExistsError", <<context["sku"]>>, e)
         ELSE Raise("ProductAlreadyExistsError",
                    <<CtxGet(context, "product_name", Unknown)>>, e)

\* handle_cosmos_error never returns: the value is the exception it raises
handle_cosmos_error(e, operation, context) ==
    IF e.type = "CosmosBatchOperationError"
    THEN IF e.status_code = 409
         THEN ConflictError(e, context)
         ELSE Raise("DatabaseError", <<>>, e)
    ELSE IF e.type # "CosmosHttpResponseError"
    THEN Raise("DatabaseError", <<>>, e)
    ELSE IF e.status_code = 404 /\ operation \in {"update", "delete", "get"}
    THEN Raise("ProductNotFoundError", <<CtxGet(context, "product_id", Unknown)>>, e)
    ELSE IF e.status_code = 409 /\ operation \in {"create", "update"}
    THEN ConflictError(e, context)
    ELSE IF e.status_code = 412 /\ operation = "update"
    THEN Raise("PreconditionFailedError", <<CtxGet(context, "product_id", Unknown)>>, e)
    ELSE Raise("DatabaseError", <<>>, e)

---------------------------------------------------------------------------
(* The container (the storage engine behind ContainerProxy) *)

Clients == {"c1", "c2"}

DocKeys == {"id", "category", "name", "price", "sku", "quantity", "status",
            "last_updated", "etag"}

NoDoc == [k \in DocKeys |-> IF k = "category" THEN <<>> ELSE None]

NoStorageError == StorageError("none", 0, <<>>, -1, <<>>)
NoError == Raise("DatabaseError", <<>>, NoStorageError)

\* the documents with this id in this partition (at most one)
\* a lookup by id alone, whatever the partition
Stored_in_any_partition(item, partition_key) == { d \in store : d.id = item }

Stored(item, partition_key) ==
    { d \in store : d.id = item /\ d.category = partition_key }

ReadDoc(item, partition_key) ==
    IF Stored(item, partition_key) = {} THEN NoDoc
    ELSE CHOOSE d \in Stored(item, partition_key) : TRUE

\* the version token the storage assigns on the next write
FreshEtag == StrV(ToString(nextEtag + 1))

\* failures that do not depend on the stored data
\* Failures of a call that do not depend on the stored data.  A storage
\* operation takes the failure injected into it, NoStorageError for none.
Faults == {"transport", "too_large"}

FaultError(fault, origin) ==
    CASE fault = "transport"   -> ServiceRequestError(origin)
      [] fault = "too_large"   -> CosmosHttpResponseError(413, <<"Request size is too large">>, origin)

\* what the storage says when a unique key is violated
ConflictMessages ==
    { <<"Unique index constraint", "/sku">>, <<"Unique index constraint">>,
      <<"unique index constraint", "/SKU">>, <<"/sku">>, <<"Conflict">> }

IdConflictMessage == <<"Entity with the specified id already exists">>

StorageResult(ok, item, raises, newStore) ==
    [ok |-> ok, item |-> item, raises |-> raises, store |-> newStore]

\* the arguments a container method was called with
StorageCall(fn, partition_key, body, patch_operations) ==
    [fn |-> fn, partition_key |-> partition_key, body |-> body,
     patch_operations |-> patch_operations]

NoCall == StorageCall("none", <<>>, NoDoc, <<>>)

\* a result together with the call that produced it
Called(storage_call, r) ==
    [ok |-> r.ok, item |-> r.item, raises |-> r.raises, store |-> r.store,
     call |-> storage_call]

\* one patch "set" operation after the other
RECURSIVE ApplyPatch(_, _)
ApplyPatch(doc, patch_operations) ==
    IF patch_operations = <<>> THEN doc
    ELSE ApplyPatch([doc EXCEPT ![Head(patch_operations).path] = Head(patch_operations).value],
                    Tail(patch_operations))

\* container.create_item(body): the partition is the body's category
container_create_item(body, fault, conflict_message) ==
    Called(StorageCall("create_item", body.category, body, <<>>),
        IF fault # NoStorageError
        THEN StorageResult(FALSE, NoDoc, fault, store)
        ELSE IF Stored(body.id, body.category) # {}
        THEN StorageResult(FALSE, NoDoc,
                           CosmosHttpResponseError(409, IdConflictMessage, body.category), store)
        ELSE IF \E d \in store : d.category = body.category /\ d.sku = body.sku
        THEN StorageResult(FALSE, NoDoc,
                           CosmosHttpResponseError(409, conflict_message, body.category), store)
        ELSE LET doc == [k \in DocKeys |-> IF k = "etag" THEN FreshEtag ELSE body[k]]
             IN  StorageResult(TRUE, doc, NoStorageError, store \cup {doc}))

\* container.read_item(item, partition_key)
container_read_item(item, partition_key, fault) ==
    Called(StorageCall("read_item", partition_key, NoDoc, <<>>),
        IF fault # NoStorageError
        THEN StorageResult(FALSE, NoDoc, fault, store)
        ELSE IF Stored(item, partition_key) = {}
        THEN StorageResult(FALSE, NoDoc,
                           CosmosHttpResponseError(404, <<"NotFound">>, partition_key), store)
        ELSE StorageResult(TRUE, ReadDoc(item, partition_key), NoStorageError, store))

\* container.patch_item(item, partition_key, patch_operations, headers);
\* headers is the if-match value, or Unset when no precondition is sent
container_patch_item(item, partition_key, patch_operations, headers, fault) ==
    Called(StorageCall("patch_item", partition_key, NoDoc, patch_operations),
        LET old == ReadDoc(item, partition_key) IN
        IF fault # NoStorageError
        THEN StorageResult(FALSE, NoDoc, fault, store)
        ELSE IF old = NoDoc
        THEN StorageResult(FALSE, NoDoc,
                           CosmosHttpResponseError(404, <<"NotFound">>, partition_key), store)
        ELSE IF headers # Unset /\ headers # old.etag
        THEN StorageResult(FALSE, NoDoc,
                           CosmosHttpResponseError(412, <<"Precondition Failed">>, partition_key),
                           store)
        ELSE LET doc == [ApplyPatch(old, patch_operations) EXCEPT !.etag = FreshEtag]
             IN  StorageResult(TRUE, doc, NoStorageError, (store \ {old}) \cup {doc}))

\* container.delete_item(item, partition_key)
container_delete_item(item, partition_key, fault) ==
    Called(StorageCall("delete_item", partition_key, NoDoc, <<>>),
        IF fault # NoStorageError
        THEN StorageResult(FALSE, NoDoc, fault, store)
        ELSE IF Stored(item, partition_key) = {}
        THEN StorageResult(FALSE, NoDoc,
                           CosmosHttpResponseError(404, <<"NotFound">>, partition_key), store)
        ELSE StorageResult(TRUE, NoDoc, NoStorageError, store \ Stored(item, partition_key)))

---------------------------------------------------------------------------
(* Request and response models *)

\* ProductCreate payloads a client may send (already validated)
ProductCreates ==
    [category : CreateCategories, name : {StrV("n1")}, price : {DecV("1.00")},
     sku : {StrV("S1"), StrV("S2")}, quantity : {IntV("0")}, status : {ACTIVE, INACTIVE}]

UpdateFields == {"name", "price", "quantity", "status"}

\* the validator left out of ProductUpdate
check_at_least_one_field_skipped(updates) == TRUE

\* ProductUpdate.check_at_least_one_field: some field is not None
check_at_least_one_field(updates) ==
    \E field \in UpdateFields : updates[field] # None /\ updates[field] # Unset

\* ProductUpdate payloads a client may send: an optional field may be left
\* unset, set to a value, or set to null
ProductUpdates ==
    { u \in [name : {Unset, StrV("n2"), None}, price : {Unset, DecV("2.00")},
             quantity : {Unset}, status : {Unset}] : check_at_least_one_field(u) }

\* model_dump(): every field, the unset ones with their default None
model_dump_all(updates) ==
    [k \in UpdateFields |-> IF updates[k] = Unset THEN None ELSE updates[k]]

\* model_dump(exclude_unset=True)
model_dump_exclude_unset(updates) ==
    [k \in {f \in UpdateFields : updates[f] # Unset} |-> updates[k]]

\* ProductResponse.model_validate: the constraints of Product on a stored record
ProductResponseValid(obj) ==
    /\ obj # NoDoc
    /\ obj.name.t = "str"
    /\ obj.price.t \in {"float", "Decimal", "int"}
    /\ obj.sku.t = "str"
    /\ obj.quantity.t = "int"
    /\ obj.status \in {ACTIVE, INACTIVE}
    /\ Len(obj.category) >= 1

Timestamp == StrV(ToString(now))

ValueError == StorageError("ValueError", 0, <<"Category must be a non-empty string">>, -1, <<>>)

---------------------------------------------------------------------------
(* Single-item data access: crud/product_crud.py *)

CrudResult(ok, value, error, newStore) ==
    [ok |-> ok, value |-> value, error |-> error, store |-> newStore, call |-> NoCall]

\* the same result, with the storage call that was issued on the way
WithCall(result, storage_call) == [result EXCEPT !.call = storage_call]

\* the order in which a dict built from ProductUpdate lists its keys
PatchKeyOrder == <<"name", "price", "quantity", "status", "last_updated">>

\* the list of patch (set) operations built from update_dict
PatchOperations(update_dict) ==
    LET keys == SelectSeq(PatchKeyOrder,
                          LAMBDA key : key \in DOMAIN update_dict
                                       /\ key \notin {"id", "category", "_etag"})
    IN  [i \in DOMAIN keys |-> [op |-> "set", path |-> keys[i], value |-> update_dict[keys[i]]]]

\* the patch is sent without its if-match header
IfMatchHeaders_omitted(identifier) == Unset

\* headers={"if-match": identifier.etag}
IfMatchHeaders(identifier) == identifier.etag

\* what the try block does with the storage's answer: validate and return it,
\* or hand the exception (the storage's, or the validation's) to the translator
TryResult(r, operation, context, origin) ==
    IF r.ok /\ ProductResponseValid(r.item)
    THEN WithCall(CrudResult(TRUE, r.item, NoError, r.store), r.call)
    ELSE LET e == IF r.ok THEN ValidationError(origin) ELSE r.raises
         IN  WithCall(CrudResult(FALSE, NoDoc, handle_cosmos_error(e, operation, context),
                                 r.store), r.call)

\* create_product without the line that sets the status
create_product_keeps_status(product, id, fault, conflict_message) ==
    LET stamped == [k \in DocKeys \ {"etag"} |->
                      CASE k = "id"           -> id
                        [] k = "status"       -> product.status
                        [] k = "last_updated" -> Timestamp
                        [] k = "category"     -> normalize_category(product.category).value
                        [] OTHER              -> product[k]]
        data == prepare_decimals_for_cosmos_db(stamped)
    IN  TryResult(container_create_item(data, fault, conflict_message), "create",
                  [category |-> data.category, sku |-> data.sku, product_name |-> data.name],
                  data.category)

create_product(product, id, fault, conflict_message) ==
    LET stamped == [k \in DocKeys \ {"etag"} |->
                      CASE k = "id"           -> id
                        [] k = "status"       -> ACTIVE
                        [] k = "last_updated" -> Timestamp
                        [] k = "category"     -> normalize_category(product.category).value
                        [] OTHER              -> product[k]]
        data == prepare_decimals_for_cosmos_db(stamped)
    IN  TryResult(container_create_item(data, fault, conflict_message), "create",
                  [category |-> data.category, sku |-> data.sku, product_name |-> data.name],
                  data.category)

get_product_by_id(product, fault) ==
    LET normalized_category == normalize_category(product.category) IN
    IF ~normalized_category.ok
    THEN CrudResult(FALSE, NoDoc, ValueError, store)
    ELSE TryResult(container_read_item(product.id, normalized_category.value, fault), "get",
                   [product_id |-> product.id, category |-> product.category],
                   normalized_category.value)

update_product(identifier, updates, fault) ==
    LET dumped == model_dump_exclude_unset(updates)
        normalized_category == normalize_category(identifier.category)
        update_dict == prepare_decimals_for_cosmos_db(("last_updated" :> Timestamp) @@ dumped)
        patch_operations == PatchOperations(update_dict)
        error_context ==
            IF "name" \in DOMAIN update_dict
            THEN [product_id |-> identifier.id, category |-> identifier.category,
                  product_name |-> update_dict["name"]]
            ELSE [product_id |-> identifier.id, category |-> identifier.category]
    IN  IF ~normalized_category.ok
        THEN CrudResult(FALSE, NoDoc, ValueError, store)
        ELSE TryResult(container_patch_item(identifier.id, normalized_category.value,
                                            patch_operations, IfMatchHeaders(identifier), fault),
                       "update", error_context, normalized_category.value)

delete_product(product_identifier, fault) ==
    LET normalized_category == normalize_category(product_identifier.category)
        r == container_delete_item(product_identifier.id, normalized_category.value, fault)
    IN  IF ~normalized_category.ok
        THEN CrudResult(FALSE, NoDoc, ValueError, store)
        ELSE IF r.ok
        THEN WithCall(CrudResult(TRUE, NoDoc, NoError, r.store), r.call)
        ELSE WithCall(CrudResult(FALSE, NoDoc,
                                 handle_cosmos_error(r.raises, "delete",
                                                     [product_id |-> product_identifier.id,
                                                      category |-> product_identifier.category]),
                                 r.store), r.call)

---------------------------------------------------------------------------
(* Batch error handling: exceptions.handle_batch_operation_error *)

\* `contexts` is get_error_context applied to each item of the partition;
\* error_index counts from 0, and -1 stands for None.
\* the failing index is read as a position counted from one
handle_batch_operation_error_from_one(e, operation, category_pk, contexts) ==
    IF e.type = "CosmosBatchOperationError"
    THEN LET error_context ==
                 IF e.error_index >= 1 /\ e.error_index <= Len(contexts)
                 THEN contexts[e.error_index] @@ [category |-> category_pk]
                 ELSE [category |-> category_pk]
         IN  handle_cosmos_error(e, operation, error_context)
    ELSE e

\* The value is the exception that leaves the handler: the translated error
\* for a batch-operation error, and for any other exception the bare `raise`
\* re-raises the exception being handled.
handle_batch_operation_error(e, operation, category_pk, contexts) ==
    IF e.type = "CosmosBatchOperationError"
    THEN LET error_context ==
                 IF e.error_index >= 0 /\ e.error_index < Len(contexts)
                 THEN contexts[e.error_index + 1] @@ [category |-> category_pk]
                 ELSE [category |-> category_pk]
         IN  handle_cosmos_error(e, operation, error_context)
    ELSE e

---------------------------------------------------------------------------
(* Service layer: services/product_service.py *)

\* The service awaits the data-access call inside a try block; `called` is
\* what that call returned or raised.  Everything raised there, and a failed
\* validation of the returned record, goes to handle_cosmos_error.
ServiceTry(called, operation, context) ==
    IF called.ok /\ (operation = "delete" \/ ProductResponseValid(called.value))
    THEN WithCall(CrudResult(TRUE, called.value, NoError, called.store), called.call)
    ELSE LET e == IF called.ok THEN ValidationError(<<>>) ELSE called.error
         IN  WithCall(CrudResult(FALSE, NoDoc, handle_cosmos_error(e, operation, context),
                                 called.store), called.call)

service_create_product(product, called) ==
    ServiceTry(called, "create", [sku |-> product.sku, product_name |-> product.name])

service_update_product(identifier, called) ==
    ServiceTry(called, "update",
               [product_id |-> identifier.id,
                category |-> normalize_category(identifier.category).value])

service_delete_product(product_identifier, called) ==
    ServiceTry(called, "delete",
               [product_id |-> product_identifier.id,
                category |-> normalize_category(product_identifier.category).value])

---------------------------------------------------------------------------
(* Clients calling the single-item data access *)

NoUpdates == [f \in UpdateFields |-> Unset]

\* what a call did: its arguments, what it returned or raised, and the stored
\* record (id, partition) just before and just after it
Resp(op, id, category, if_match, updates, r, pre, post) ==
    [op |-> op, id |-> id, category |-> category, if_match |-> if_match,
     updates |-> updates, ok |-> r.ok, value |-> r.value,
     error |-> r.error, pre |-> pre, post |-> post]

NoResp ==
    Resp("none", None, <<>>, None, NoUpdates,
         CrudResult(FALSE, NoDoc, NoError, {}), NoDoc, NoDoc)

\* what a client keeps from a read: the product and the category it asked with
NoHeld == [doc |-> NoDoc, category |-> <<>>]

DocIn(st, item, partition_key) ==
    LET found == { d \in st : d.id = item /\ d.category = partition_key }
    IN  IF found = {} THEN NoDoc ELSE CHOOSE d \in found : TRUE

KnownIds == { StrV(ToString(i)) : i \in 1..nextId }

\* the payloads, categories and storage messages the clients' calls draw from
CreateInputs ==
    { p \in ProductCreates :
        \/ p.category = <<"G">> /\ p.status = INACTIVE
        \/ p.category = <<"T">> /\ p.status = ACTIVE }

UpdateInputs ==
    { u \in ProductUpdates :
        \/ u.name = Unset
        \/ u.name = StrV("n2") /\ u.price = Unset
        \/ u.name = None }

IdentifierCategories == { <<"G">>, <<"T">> }

SingleConflictMessages == { <<"Unique index constraint", "/sku">>, <<"Conflict">> }

\* the storage call a request issued, with the category the client sent and,
\* for a create, the status its payload carried
Issued(storage_call, category, status) ==
    [call |-> storage_call, category |-> category, status |-> status]

NoIssued == Issued(NoCall, <<>>, None)
\* a list request: its arguments, the page it returned or the error it
\* raised, and the items returned since the first page of the listing
NoListing == [category |-> <<>>, limit |-> 0, continuation_token |-> None,
              ok |-> FALSE, items |-> <<>>, next |-> None, error |-> NoError,
              seen |-> <<>>]
NoApplied == [fn |-> "none"]
NoReturned == [ok |-> FALSE]

\* clients that create and delete products; every client reads and updates
Owners == {"c1"}

CrudCreate(c, product, conflict_message) ==
    /\ \/ \E d \in store : d.sku = product.sku
       \/ conflict_message = <<"Conflict">>
    /\ LET id == StrV(ToString(nextId + 1))
           pk == normalize_category(product.category).value
           r  == create_product(product, id, NoStorageError, conflict_message)
       IN  /\ issued' = Issued(r.call, product.category, product.status)
           /\ store' = r.store
           /\ nextId' = nextId + 1
           /\ nextEtag' = IF r.store # store THEN nextEtag + 1 ELSE nextEtag
           /\ resp' = [resp EXCEPT ![c] =
                         Resp("create", id, product.category, None, NoUpdates, r,
                              DocIn(store, id, pk), DocIn(r.store, id, pk))]
    /\ now' = now + 1
    /\ UNCHANGED <<held, tr>>
    /\ UNCHANGED batchVars
    /\ UNCHANGED listVars
    /\ UNCHANGED dbVars
    /\ UNCHANGED helperVars

CrudGet(c, id, category) ==
    /\ LET pk == normalize_category(category).value
           r  == get_product_by_id([id |-> id, category |-> category], NoStorageError)
       IN  /\ issued' = Issued(r.call, category, None)
           /\ held' = [held EXCEPT ![c] =
                         IF r.ok THEN [doc |-> r.value, category |-> category] ELSE @]
           /\ resp' = [resp EXCEPT ![c] =
                         Resp("get", id, category, None, NoUpdates, r,
                              DocIn(store, id, pk), DocIn(store, id, pk))]
    /\ now' = now + 1
    /\ UNCHANGED <<store, nextId, nextEtag, tr>>
    /\ UNCHANGED batchVars
    /\ UNCHANGED listVars
    /\ UNCHANGED dbVars
    /\ UNCHANGED helperVars

\* a client updates the product it read, presenting the etag it read
CrudUpdate(c, updates) ==
    /\ held[c] # NoHeld
    /\ LET identifier == [id |-> held[c].doc.id, category |-> held[c].category,
                          etag |-> held[c].doc.etag]
           pk == normalize_category(identifier.category).value
           r  == update_product(identifier, updates, NoStorageError)
       IN  /\ issued' = Issued(r.call, identifier.category, None)
           /\ store' = r.store
           /\ nextEtag' = IF r.store # store THEN nextEtag + 1 ELSE nextEtag
           /\ resp' = [resp EXCEPT ![c] =
                         Resp("update", identifier.id, identifier.category, identifier.etag,
                              updates, r, DocIn(store, identifier.id, pk),
                              DocIn(r.store, identifier.id, pk))]
    /\ now' = now + 1
    /\ UNCHANGED <<nextId, held, tr>>
    /\ UNCHANGED batchVars
    /\ UNCHANGED listVars
    /\ UNCHANGED dbVars
    /\ UNCHANGED helperVars

CrudDelete(c, id, category) ==
    /\ LET pk == normalize_category(category).value
           r  == delete_product([id |-> id, category |-> category], NoStorageError)
       IN  /\ issued' = Issued(r.call, category, None)
           /\ store' = r.store
           /\ resp' = [resp EXCEPT ![c] =
                         Resp("delete", id, category, None, NoUpdates, r,
                              DocIn(store, id, pk), DocIn(r.store, id, pk))]
    /\ now' = now + 1
    /\ UNCHANGED <<nextId, nextEtag, held, tr>>
    /\ UNCHANGED batchVars
    /\ UNCHANGED listVars
    /\ UNCHANGED dbVars
    /\ UNCHANGED helperVars

---------------------------------------------------------------------------
(* The storage client and the cache of container proxies: db.py *)

MaxRequests == 3  \* requests that call get_container

Requests == 1..MaxRequests

NoClient == 0
NoProxy == 0
\* `running` is the set of the coroutines that hold the event loop: one or none
Nobody == {}

\* ContainerType has the member PRODUCTS; any other value is not configured
ContainerTypes == {"products", "orders"}

\* CONTAINERS.get(container_type): the container name, "" for None
CONTAINERS_get(container_type) == IF container_type = "products" THEN "products" ELSE ""

Coroutine(pc, container_name, local_client, result) ==
    [pc |-> pc, container_name |-> container_name, client |-> local_client, result |-> result]

NotCalled == Coroutine("idle", "", NoClient, NoProxy)

InitDb ==
    /\ client = NoClient
    /\ constructed = 0
    /\ containers = [container_name \in {"products"} |-> NoProxy]
    /\ proxies = 0
    /\ coroutine = [r \in Requests |-> NotCalled]
    /\ running = Nobody

\* _ensure_client gives the event loop away before it returns
ensure_client_suspends_once == TRUE

\* `await _ensure_client()`: the coroutine awaited has no await of its own,
\* so the caller keeps the event loop until get_container returns
ensure_client_suspends == FALSE

\* get_container up to `await _ensure_client()`: the lookup of the container
\* name and of the cached proxy
GetContainer(r, container_type) ==
    /\ running = Nobody
    /\ coroutine[r].pc = "idle"
    /\ LET container_name == CONTAINERS_get(container_type) IN
       IF container_name = ""
       THEN /\ coroutine' = [coroutine EXCEPT ![r] = Coroutine("raised", "", NoClient, NoProxy)]
            /\ running' = Nobody
       ELSE IF containers[container_name] = NoProxy
       THEN /\ coroutine' = [coroutine EXCEPT
                               ![r] = Coroutine("ensure", container_name, NoClient, NoProxy)]
            /\ running' = {r}
       ELSE /\ coroutine' = [coroutine EXCEPT
                               ![r] = Coroutine("done", container_name, NoClient,
                                                containers[container_name])]
            /\ running' = Nobody
    /\ UNCHANGED <<client, constructed, containers, proxies>>
    /\ UNCHANGED <<crudVars, batchVars, listVars, helperVars, tr, issued>>

\* _ensure_client: the client is constructed when there is none; a failure
\* of the constructor is re-raised and leaves _client unset
EnsureClient(r, fails) ==
    /\ running = {r}
    /\ coroutine[r].pc = "ensure"
    /\ fails => client = NoClient
    /\ IF fails
       THEN /\ coroutine' = [coroutine EXCEPT ![r].pc = "raised"]
            /\ running' = Nobody
            /\ UNCHANGED <<client, constructed>>
       ELSE /\ client' = IF client = NoClient THEN constructed + 1 ELSE client
            /\ constructed' = IF client = NoClient THEN constructed + 1 ELSE constructed
            /\ coroutine' = [coroutine EXCEPT ![r].pc = "bind", ![r].client = client']
            /\ running' = IF ensure_client_suspends THEN Nobody ELSE {r}
    /\ UNCHANGED <<containers, proxies>>
    /\ UNCHANGED <<crudVars, batchVars, listVars, helperVars, tr, issued>>

\* the rest of get_container: a new proxy is made from the client, stored in
\* the cache, and the cached proxy is returned
BindContainer(r) ==
    /\ running \in {{r}, Nobody}
    /\ coroutine[r].pc = "bind"
    /\ proxies' = proxies + 1
    /\ containers' = [containers EXCEPT ![coroutine[r].container_name] = proxies + 1]
    /\ coroutine' = [coroutine EXCEPT ![r].pc = "done", ![r].result = proxies + 1]
    /\ running' = Nobody
    /\ UNCHANGED <<client, constructed>>
    /\ UNCHANGED <<crudVars, batchVars, listVars, helperVars, tr, issued>>

NextDb ==
    \/ \E r \in Requests, container_type \in ContainerTypes : GetContainer(r, container_type)
    \/ \E r \in Requests, fails \in BOOLEAN : EnsureClient(r, fails)
    \/ \E r \in Requests : BindContainer(r)

InitIdle ==
    /\ issued = NoIssued
    /\ listing = NoListing
    /\ applied = NoApplied
    /\ returned = NoReturned
    /\ InitDb

NoTr == [fn |-> "none", operation |-> "none", e |-> NoStorageError, raised |-> NoError]
NoRequest == [op |-> "none", items |-> <<>>]
NoOutcome == [kind |-> "none", results |-> <<>>, error |-> NoError]

InitCrud ==
    /\ store = {}
    /\ nextId = 0
    /\ nextEtag = 0
    /\ now = 0
    /\ held = [c \in Clients |-> NoHeld]
    /\ resp = [c \in Clients |-> NoResp]

InitBatchIdle ==
    /\ request = NoRequest
    /\ groups = <<>>
    /\ tasks = <<>>
    /\ calls = <<>>
    /\ finished = <<>>
    /\ mainPc = "idle"
    /\ outcome = NoOutcome

Init == InitCrud /\ tr = NoTr /\ InitBatchIdle /\ InitIdle

\* any client calls any single-item operation
Next ==
    /\ now < MaxClock
    /\ \/ \E c \in Owners, product \in CreateInputs, conflict_message \in SingleConflictMessages :
            CrudCreate(c, product, conflict_message)
       \/ \E c \in Clients, id \in KnownIds, category \in IdentifierCategories :
            CrudGet(c, id, category)
       \/ \E c \in Clients, updates \in UpdateInputs :
            CrudUpdate(c, updates)
       \/ \E c \in Owners, id \in KnownIds, category \in IdentifierCategories :
            CrudDelete(c, id, category)

Spec == Init /\ [][Next]_vars

\* two clients read products of one category and update what they read
NextOcc ==
    /\ now < MaxOccClock
    /\ \/ \E c \in Owners, product \in CreateInputs :
            product.category = <<"G">> /\ CrudCreate(c, product, <<"Conflict">>)
       \/ \E c \in Clients, id \in KnownIds :
            CrudGet(c, id, <<"G">>)
       \/ \E c \in Clients, updates \in UpdateInputs :
            CrudUpdate(c, updates)

SpecDb == Init /\ [][NextDb]_vars

SpecOcc == Init /\ [][NextOcc]_vars

---------------------------------------------------------------------------
(* Claims about the single-item update *)

Updated(c) == resp[c].op = "update" /\ resp[c].pre # NoDoc

Committed(c) == resp[c].post # resp[c].pre

\* C1: for a stored product, an update presenting an etag other than the stored
\* one fails with PreconditionFailed and leaves the stored record unchanged; an
\* update presenting the stored etag succeeds and returns a record whose etag
\* is new and differs from the one presented.
C1_EtagDecidesUpdate ==
    \A c \in Clients :
        Updated(c) =>
            IF resp[c].if_match # resp[c].pre.etag
            THEN /\ ~resp[c].ok
                 /\ resp[c].error.type = "PreconditionFailedError"
                 /\ resp[c].post = resp[c].pre
            ELSE /\ resp[c].ok
                 /\ resp[c].value.etag # resp[c].if_match
                 /\ resp[c].value = resp[c].post

\* the part of C1 that the code keeps: the stale half always, the current half
\* when no field of the payload is set to null
C1_HoldsWithoutNullFields ==
    \A c \in Clients :
        Updated(c) =>
            IF resp[c].if_match # resp[c].pre.etag
            THEN /\ ~resp[c].ok
                 /\ resp[c].error.type = "PreconditionFailedError"
                 /\ resp[c].post = resp[c].pre
            ELSE /\ Committed(c)
                 /\ resp[c].post.etag # resp[c].if_match
                 /\ (\A f \in UpdateFields : resp[c].updates[f] # None)
                        => resp[c].ok /\ resp[c].value = resp[c].post

\* C2: when two clients read the same product, obtaining the same etag, and each
\* then updates it presenting that etag, at most one update succeeds (and at
\* most one is written); every update that is not written fails with
\* PreconditionFailed.
C2_AtMostOneUpdateWins ==
    \A c1, c2 \in Clients :
        ( /\ c1 # c2
          /\ Updated(c1) /\ Updated(c2)
          /\ resp[c1].id = resp[c2].id
          /\ resp[c1].pre.category = resp[c2].pre.category
          /\ resp[c1].if_match = resp[c2].if_match )
        => /\ ~(resp[c1].ok /\ resp[c2].ok)
           /\ ~(Committed(c1) /\ Committed(c2))
           /\ \A c \in {c1, c2} :
                ~Committed(c) => ~resp[c].ok /\ resp[c].error.type = "PreconditionFailedError"

\* both clients read etag e and updated with it: one was written, the other refused
C2_Witness ==
    \E c1, c2 \in Clients :
        /\ c1 # c2
        /\ Updated(c1) /\ Updated(c2)
        /\ resp[c1].id = resp[c2].id
        /\ resp[c1].if_match = resp[c2].if_match
        /\ held[c1].doc.etag = resp[c1].if_match /\ held[c2].doc.etag = resp[c2].if_match
        /\ resp[c1].ok /\ Committed(c1)
        /\ resp[c2].error.type = "PreconditionFailedError" /\ ~Committed(c2)

---------------------------------------------------------------------------
(* Batch requests: services/product_batch_service.py on top of
   crud/product_crud_batch.py *)

\* container.execute_item_batch(batch_operations, partition_key): the
\* operations are applied in order to the partition; the first one that fails
\* fails the whole batch, which then writes nothing.
BatchOp(op, item, body, patch_operations, if_match_etag) ==
    [op |-> op, item |-> item, body |-> body, patch_operations |-> patch_operations,
     if_match_etag |-> if_match_etag]

BatchState(ok, st, etag, results, raises) ==
    [ok |-> ok, store |-> st, etag |-> etag, results |-> results, raises |-> raises]

\* one operation of a batch on the partition as the earlier operations left it
ApplyBatchOp(b, operation, partition_key, error_index) ==
    LET found == { d \in b.store : d.category = partition_key /\ d.id = operation.item }
        old   == IF found = {} THEN NoDoc ELSE CHOOSE d \in found : TRUE
        fail(status_code, message) ==
            BatchState(FALSE, b.store, b.etag, b.results,
                       CosmosBatchOperationError(status_code, message, error_index, partition_key))
        written(doc) == [doc EXCEPT !.etag = StrV(ToString(b.etag + 1))]
    IN  CASE operation.op = "create" ->
               IF \E d \in b.store : d.category = partition_key /\ d.id = operation.body.id
               THEN fail(409, IdConflictMessage)
               ELSE IF \E d \in b.store : d.category = partition_key /\ d.sku = operation.body.sku
               THEN fail(409, <<"Unique index constraint", "/sku">>)
               ELSE LET doc == written([k \in DocKeys |->
                                          IF k = "etag" THEN None ELSE operation.body[k]])
                    IN  BatchState(TRUE, b.store \cup {doc}, b.etag + 1,
                                   Append(b.results, [statusCode |-> 201, resourceBody |-> doc]),
                                   NoStorageError)
          [] operation.op = "patch" ->
               IF old = NoDoc THEN fail(404, <<"NotFound">>)
               ELSE IF operation.if_match_etag # old.etag
               THEN fail(412, <<"Precondition Failed">>)
               ELSE LET doc == written(ApplyPatch(old, operation.patch_operations))
                    IN  BatchState(TRUE, (b.store \ {old}) \cup {doc}, b.etag + 1,
                                   Append(b.results, [statusCode |-> 200, resourceBody |-> doc]),
                                   NoStorageError)
          [] operation.op = "delete" ->
               IF old = NoDoc THEN fail(404, <<"NotFound">>)
               ELSE BatchState(TRUE, b.store \ {old}, b.etag,
                               Append(b.results, [statusCode |-> 204, resourceBody |-> NoDoc]),
                               NoStorageError)

RECURSIVE ApplyBatch(_, _, _, _)
ApplyBatch(b, batch_operations, partition_key, error_index) ==
    IF batch_operations = <<>> \/ ~b.ok THEN b
    ELSE ApplyBatch(ApplyBatchOp(b, Head(batch_operations), partition_key, error_index),
                    Tail(batch_operations), partition_key, error_index + 1)

container_execute_item_batch(batch_operations, partition_key, fault) ==
    LET start == BatchState(TRUE, store, nextEtag, <<>>, NoStorageError)
        b     == ApplyBatch(start, batch_operations, partition_key, 0)
    IN  IF fault # NoStorageError
        THEN BatchState(FALSE, store, nextEtag, <<>>, fault)
        ELSE IF b.ok THEN b
        ELSE BatchState(FALSE, store, nextEtag, <<>>, b.raises)

\* crud.execute_item_batch: the thin wrapper re-raises whatever the call raises
execute_item_batch(batch_operations, partition_key, fault) ==
    container_execute_item_batch(batch_operations, partition_key, fault)

\* the item is put at the head of the list of its category
AddToGroup_at_head(by_category, category_pk, item) ==
    IF \E i \in DOMAIN by_category : by_category[i].category_pk = category_pk
    THEN [i \in DOMAIN by_category |->
            IF by_category[i].category_pk = category_pk
            THEN [by_category[i] EXCEPT !.items = <<item>> \o @]
            ELSE by_category[i]]
    ELSE Append(by_category, [category_pk |-> category_pk, items |-> <<item>>])

\* the dict of item lists keyed by normalized category, in insertion order
AddToGroup(by_category, category_pk, item) ==
    IF \E i \in DOMAIN by_category : by_category[i].category_pk = category_pk
    THEN [i \in DOMAIN by_category |->
            IF by_category[i].category_pk = category_pk
            THEN [by_category[i] EXCEPT !.items = Append(@, item)]
            ELSE by_category[i]]
    ELSE Append(by_category, [category_pk |-> category_pk, items |-> <<item>>])

RECURSIVE items_by_category(_, _)
items_by_category(items, by_category) ==
    IF items = <<>> THEN [ok |-> TRUE, groups |-> by_category]
    ELSE LET category_pk == normalize_category(Head(items).category) IN
         IF ~category_pk.ok THEN [ok |-> FALSE, groups |-> <<>>]
         ELSE items_by_category(Tail(items),
                                AddToGroup(by_category, category_pk.value, Head(items)))

\* batch_operations_for_db built by process_category_creates / _updates / _deletes
create_operations(product_list_for_category, first_id) ==
    [i \in DOMAIN product_list_for_category |->
       LET product_to_create == product_list_for_category[i]
           data == [k \in DocKeys \ {"etag"} |->
                      CASE k = "id"           -> StrV(ToString(first_id + i))
                        [] k = "status"       -> ACTIVE
                        [] k = "last_updated" -> Timestamp
                        [] k = "category"     ->
                             normalize_category(product_to_create.category).value
                        [] OTHER              -> product_to_create[k]]
       IN  BatchOp("create", StrV(ToString(first_id + i)),
                   prepare_decimals_for_cosmos_db(data), <<>>, None)]

\* an item whose list of patch operations is empty is skipped (`continue`);
\* last_updated is put in update_dict before the list is built
update_operations(update_items_for_category) ==
    LET built == [i \in DOMAIN update_items_for_category |->
                    LET update_item == update_items_for_category[i]
                        update_dict == prepare_decimals_for_cosmos_db(
                                           ("last_updated" :> Timestamp)
                                           @@ model_dump_exclude_unset(update_item.changes))
                    IN  BatchOp("patch", update_item.id, NoDoc, PatchOperations(update_dict),
                                update_item.etag)]
    IN  SelectSeq(built, LAMBDA operation : operation.patch_operations # <<>>)

delete_operations(product_ids_in_category) ==
    [i \in DOMAIN product_ids_in_category |->
       BatchOp("delete", product_ids_in_category[i].id, NoDoc, <<>>, None)]

batch_operations_for_db(op, items, first_id) ==
    CASE op = "create" -> create_operations(items, first_id)
      [] op = "update" -> update_operations(items)
      [] op = "delete" -> delete_operations(items)

\* the call is made on the list as it is initialised, before the loop fills it
process_category_before_loop(op, items, first_id) ==
    [calls_storage |-> TRUE, batch_operations |-> <<>>]

\* process_category_creates / _updates / _deletes up to the storage call: the
\* operations of the group, and `if not batch_operations_for_db: return []`
process_category(op, items, first_id) ==
    LET operations == batch_operations_for_db(op, items, first_id)
    IN  [calls_storage |-> operations # <<>>, batch_operations |-> operations]

\* the error context of one item (the lambdas passed to the batch handler)
get_error_context(op, item) ==
    CASE op = "create" -> [sku |-> item.sku, product_name |-> item.name]
      [] op = "update" ->
           IF item.changes.name \notin {Unset, None}
           THEN [product_id |-> item.id, product_name |-> item.changes.name]
           ELSE [product_id |-> item.id]
      [] op = "delete" -> [product_id |-> item.id]

\* the status codes with which the loop over batch_results takes resourceBody
AcceptedStatus(op) == IF op = "create" THEN {200, 201} ELSE {200}

\* res_item.get("id") is truthy
HasId(res_item) == "id" \in DOMAIN res_item /\ res_item.id \notin {None, StrV("")}

\* one turn of the loop over batch_results: the product appended for an
\* entry, if any; a failed model_validate is swallowed (`except: continue`)
extract_product(op, res_item) ==
    IF "statusCode" \in DOMAIN res_item /\ res_item.statusCode \in AcceptedStatus(op)
       /\ "resourceBody" \in DOMAIN res_item
    THEN IF ProductResponseValid(res_item.resourceBody)
         THEN <<res_item.resourceBody>> ELSE <<>>
    ELSE IF HasId(res_item)
    THEN IF ProductResponseValid(res_item) THEN <<res_item>> ELSE <<>>
    ELSE <<>>

RECURSIVE extract_products(_, _)
extract_products(op, batch_results) ==
    IF batch_results = <<>> THEN <<>>
    ELSE extract_product(op, Head(batch_results)) \o extract_products(op, Tail(batch_results))

\* the products a successful batch call returns to the caller
extract_results(op, items, batch_results) ==
    IF op = "delete" THEN [i \in DOMAIN items |-> items[i].id]
    ELSE extract_products(op, batch_results)

\* one partition task: asyncio.create_task(process_func(category, items))
Task(category_pk, items, pc, results, error) ==
    [category_pk |-> category_pk, items |-> items, pc |-> pc, results |-> results,
     error |-> error]

Failed(task) == task.pc = "done" /\ task.error # NoError

\* the exceptions gather returned, in the order the tasks were submitted
Exceptions(ts) ==
    LET failed == SelectSeq(ts, Failed) IN [i \in DOMAIN failed |-> failed[i].error]

RECURSIVE AllResults(_)
AllResults(ts) ==
    IF ts = <<>> THEN <<>> ELSE Head(ts).results \o AllResults(Tail(ts))

\* the exception of the task that failed first in time
FirstException_by_completion(ts, completion_order) ==
    LET failed == SelectSeq(completion_order, LAMBDA i : Failed(ts[i]))
    IN  ts[failed[1]].error

\* the exception that _execute_batch_by_category raises: exceptions[0]
FirstException(ts, completion_order) == Exceptions(ts)[1]

\* what _execute_batch_by_category does once gather has returned
Gathered(ts, completion_order) ==
    IF Exceptions(ts) # <<>>
    THEN [kind |-> "raised", results |-> <<>>, error |-> FirstException(ts, completion_order)]
    ELSE [kind |-> "returned", results |-> AllResults(ts), error |-> NoError]

\* The service function up to its await: group the items, create one task per
\* group, and wait in gather.  A category that normalize_category rejects
\* ends the request before any task exists.
BatchRequest(op, items) ==
    /\ mainPc = "idle"
    /\ LET grouped == items_by_category(items, <<>>) IN
       /\ request' = [op |-> op, items |-> items]
       /\ groups' = grouped.groups
       /\ IF items = <<>>
          THEN /\ tasks' = <<>>
               /\ mainPc' = "done"
               /\ outcome' = [kind |-> "returned", results |-> <<>>, error |-> NoError]
          ELSE IF grouped.ok
          THEN /\ tasks' = [i \in DOMAIN grouped.groups |->
                              Task(grouped.groups[i].category_pk, grouped.groups[i].items,
                                   "created", <<>>, NoError)]
               /\ mainPc' = "gather"
               /\ outcome' = outcome
          ELSE /\ tasks' = <<>>
               /\ mainPc' = "done"
               /\ outcome' = [kind |-> "raised", results |-> <<>>, error |-> ValueError]
    /\ UNCHANGED <<calls, finished, tr>>
    /\ UNCHANGED crudVars
    /\ UNCHANGED <<issued, listing, applied, returned>>
    /\ UNCHANGED dbVars

\* The first step of a task, up to the await of the storage call.  The event
\* loop runs the created tasks in the order of their creation.
TaskStart(i) ==
    /\ mainPc = "gather"
    /\ i \in DOMAIN tasks
    /\ tasks[i].pc = "created"
    /\ \A j \in 1..(i - 1) : tasks[j].pc # "created"
    /\ LET process == process_category(request.op, tasks[i].items, nextId) IN
       /\ calls' = IF process.calls_storage
                    THEN Append(calls, [task |-> i, partition_key |-> tasks[i].category_pk,
                                        batch_operations |-> process.batch_operations])
                    ELSE calls
       /\ tasks' = [tasks EXCEPT ![i].pc = IF process.calls_storage THEN "calling" ELSE "done"]
       /\ finished' = IF process.calls_storage THEN finished ELSE Append(finished, i)
       /\ nextId' = IF request.op = "create" THEN nextId + Len(tasks[i].items) ELSE nextId
    /\ UNCHANGED <<store, nextEtag, now, held, resp, tr, request, groups, mainPc, outcome>>
    /\ UNCHANGED <<issued, listing, applied, returned>>
    /\ UNCHANGED dbVars

\* The storage call of a task completes, and the task runs to its end.  A
\* response is handled only after every created task has taken its first step.
TaskComplete(i, fault) ==
    /\ mainPc = "gather"
    /\ i \in DOMAIN tasks
    /\ tasks[i].pc = "calling"
    /\ \A j \in DOMAIN tasks : tasks[j].pc # "created"
    /\ LET call == CHOOSE c \in { calls[k] : k \in DOMAIN calls } : c.task = i
           b == execute_item_batch(call.batch_operations, call.partition_key, fault)
           contexts == [k \in DOMAIN tasks[i].items |->
                          get_error_context(request.op, tasks[i].items[k])]
       IN  /\ store' = b.store
           /\ nextEtag' = b.etag
           /\ tasks' = [tasks EXCEPT ![i] =
                          IF b.ok
                          THEN Task(@.category_pk, @.items, "done",
                                    extract_results(request.op, @.items, b.results), NoError)
                          ELSE Task(@.category_pk, @.items, "done", <<>>,
                                    handle_batch_operation_error(b.raises, request.op,
                                                                 @.category_pk, contexts))]
    /\ finished' = Append(finished, i)
    /\ UNCHANGED <<nextId, now, held, resp, tr, request, groups, calls, mainPc, outcome>>
    /\ UNCHANGED <<issued, listing, applied, returned>>
    /\ UNCHANGED dbVars

\* gather(return_exceptions=False) would return at the first failed task
gather_at_first_exception(ts) ==
    (\E i \in DOMAIN ts : Failed(ts[i])) \/ (\A i \in DOMAIN ts : ts[i].pc = "done")

\* asyncio.gather(*tasks, return_exceptions=True) returns once every task is done
gather(ts) == \A i \in DOMAIN ts : ts[i].pc = "done"

\* gather returns when every task is done; the request returns or raises
GatherDone ==
    /\ mainPc = "gather"
    /\ gather(tasks)
    /\ outcome' = Gathered(tasks, finished)
    /\ mainPc' = "done"
    /\ UNCHANGED <<request, groups, tasks, calls, finished, tr>>
    /\ UNCHANGED crudVars
    /\ UNCHANGED <<issued, listing, applied, returned>>
    /\ UNCHANGED dbVars

\* the products stored before the batch request arrives
StoredAtStart ==
    { [id |-> StrV("1"), category |-> <<"g">>, name |-> StrV("n1"), price |-> FltV("1.00"),
       sku |-> StrV("S1"), quantity |-> IntV("0"), status |-> ACTIVE,
       last_updated |-> StrV("0"), etag |-> StrV("1")],
      [id |-> StrV("2"), category |-> <<"t">>, name |-> StrV("n1"), price |-> FltV("1.00"),
       sku |-> StrV("S2"), quantity |-> IntV("0"), status |-> ACTIVE,
       last_updated |-> StrV("0"), etag |-> StrV("2")] }

\* items a client may put in a batch request: some succeed on StoredAtStart,
\* some are rejected by the storage (409, 412, 404)
BatchCreateItems ==
    { p \in ProductCreates :
        <<p.category, p.sku, p.status>> \in
            { <<<<"G">>, StrV("S2"), ACTIVE>>, <<<<"g">>, StrV("S2"), INACTIVE>>,
              <<<<"T">>, StrV("S1"), INACTIVE>>, <<<<"T">>, StrV("S2"), ACTIVE>> } }

BatchUpdateItems ==
    { u \in [id : {StrV("1"), StrV("2")}, category : {<<"G">>, <<"T">>},
             etag : {StrV("1"), StrV("2")},
             changes : { c \in ProductUpdates : c.name = Unset }] :
        <<u.id, u.category, u.etag>> \in
            { <<StrV("1"), <<"G">>, StrV("1")>>, <<StrV("1"), <<"G">>, StrV("2")>>,
              <<StrV("2"), <<"T">>, StrV("2")>>, <<StrV("2"), <<"G">>, StrV("2")>> } }
    \cup { [id |-> StrV("1"), category |-> <<"G">>, etag |-> StrV("1"),
            changes |-> CHOOSE c \in ProductUpdates : c.name = None] }

BatchDeleteItems ==
    { [id |-> StrV("1"), category |-> <<"G">>], [id |-> StrV("1"), category |-> <<" ", "g">>],
      [id |-> StrV("2"), category |-> <<"T">>], [id |-> StrV("2"), category |-> <<"G">>],
      [id |-> StrV("2"), category |-> <<>>] }

\* the non-empty item lists of at most MaxItems items
ItemLists(S) == UNION { [1..n -> S] : n \in 1..MaxItems }

\* failures of a batch call as a whole: none, a transport failure, or the
\* rejection of an oversized request
BatchFaults(partition_key) ==
    { NoStorageError } \cup { FaultError(fault, partition_key) : fault \in Faults }

\* create_products, update_products, delete_products
BatchOperationNames == {"create", "update", "delete"}

InitBatch ==
    /\ store = StoredAtStart
    /\ nextId = 2
    /\ nextEtag = 2
    /\ now = 1
    /\ held = [c \in Clients |-> NoHeld]
    /\ resp = [c \in Clients |-> NoResp]
    /\ tr = NoTr
    /\ InitBatchIdle
    /\ InitIdle

NextBatch ==
    \/ \E items \in ItemLists(BatchCreateItems) : BatchRequest("create", items)
    \/ \E items \in ItemLists(BatchUpdateItems) : BatchRequest("update", items)
    \/ \E items \in ItemLists(BatchDeleteItems) : BatchRequest("delete", items)
    \/ \E op \in BatchOperationNames : BatchRequest(op, <<>>)
    \/ \E i \in DOMAIN tasks : TaskStart(i)
    \/ \E i \in DOMAIN tasks : \E fault \in BatchFaults(tasks[i].category_pk) :
            TaskComplete(i, fault)
    \/ GatherDone

SpecBatch == InitBatch /\ [][NextBatch]_vars

\* Every write operation of the API on one store: single-item requests one
\* after the other, or one batch request.
MaxApiClock == 4

\* a single-item request is served while no batch request has arrived; the
\* batch request arrives before any single-item request
SingleTurn == mainPc = "idle" /\ now < MaxApiClock
BatchTurn == now = 1

NextApi ==
    \/ \E c \in Owners, product \in CreateInputs, conflict_message \in SingleConflictMessages :
         SingleTurn /\ CrudCreate(c, product, conflict_message)
    \/ \E c \in Clients, id \in KnownIds, category \in IdentifierCategories :
         SingleTurn /\ CrudGet(c, id, category)
    \/ \E c \in Clients, updates \in UpdateInputs :
         SingleTurn /\ CrudUpdate(c, updates)
    \/ \E c \in Owners, id \in KnownIds, category \in IdentifierCategories :
         SingleTurn /\ CrudDelete(c, id, category)
    \/ \E items \in ItemLists(BatchCreateItems) : BatchTurn /\ BatchRequest("create", items)
    \/ \E items \in ItemLists(BatchUpdateItems) : BatchTurn /\ BatchRequest("update", items)
    \/ \E items \in ItemLists(BatchDeleteItems) : BatchTurn /\ BatchRequest("delete", items)
    \/ \E i \in DOMAIN tasks : TaskStart(i)
    \/ \E i \in DOMAIN tasks : \E fault \in BatchFaults(tasks[i].category_pk) :
         TaskComplete(i, fault)
    \/ GatherDone

SpecApi == InitBatch /\ [][NextApi]_vars

---------------------------------------------------------------------------
(* Failures handled by the except-paths *)

Operations == {"create", "get", "update", "delete", "list"}

Statuses == {404, 409, 412, 500}

Messages == ConflictMessages \cup { <<"unique index constraint", "/sku">> }

\* what a storage call may raise
StorageExceptions ==
    { StorageError(type, status_code, message, IF type = "CosmosBatchOperationError" THEN 0 ELSE -1,
                   <<"g">>) :
        type \in {"CosmosHttpResponseError", "CosmosBatchOperationError"},
        status_code \in Statuses, message \in Messages }
    \cup { ServiceRequestError(<<"g">>), FaultError("too_large", <<"g">>) }

\* what the data-access layer may raise to the service: its translated errors,
\* an untranslated storage exception, or an exception of the call itself
DataAccessRaises ==
    { Raise(type, <<>>, CosmosHttpResponseError(AppStatus(type), <<"Conflict">>, <<"g">>)) :
        type \in ApplicationErrors }
    \cup { e \in StorageExceptions : e.type # "CosmosBatchOperationError" }
    \cup { TypeError(<<"g">>) }

\* what a storage batch call may raise: a batch-operation error carrying the
\* status of the operation that failed, or a failure of the request as a
\* whole (conflict and precondition statuses belong to single operations)
BatchCallExceptions ==
    { e \in StorageExceptions :
        e.type = "CosmosHttpResponseError" => e.status_code \notin {409, 412} }

SampleProduct ==
    CHOOSE p \in ProductCreates : p.category = <<"G">> /\ p.sku = StrV("S1") /\ p.status = ACTIVE

SampleIdentifier == [id |-> StrV("1"), category |-> <<"G">>, etag |-> StrV("1")]

\* keyword contexts a caller may pass to the translator
Contexts ==
    { [category |-> <<"g">>, sku |-> StrV("S1"), product_name |-> StrV("n1")],
      [category |-> <<"g">>, product_id |-> StrV("1")],
      [category |-> <<"g">>, product_id |-> StrV("1"), product_name |-> StrV("n1")] }

Handled(fn, operation, e, raised) ==
    [fn |-> fn, operation |-> operation, e |-> e, raised |-> raised]

\* handle_cosmos_error called with any exception, operation name and context
Translate(e, operation, context) ==
    /\ tr = NoTr
    /\ tr' = Handled("handle_cosmos_error", operation, e,
                     handle_cosmos_error(e, operation, context))
    /\ UNCHANGED crudVars
    /\ UNCHANGED batchVars
    /\ UNCHANGED <<issued, listing, applied, returned>>
    /\ UNCHANGED dbVars

\* a single-item data-access function whose storage call raises e
DataAccessFails(operation, e) ==
    /\ tr = NoTr
    /\ tr' = Handled("crud", operation, e,
                     CASE operation = "create" ->
                            create_product(SampleProduct, StrV("1"), e, <<>>).error
                       [] operation = "get" ->
                            get_product_by_id(SampleIdentifier, e).error
                       [] operation = "update" ->
                            update_product(SampleIdentifier,
                                           CHOOSE u \in UpdateInputs : u.name = Unset,
                                           e).error
                       [] operation = "delete" ->
                            delete_product(SampleIdentifier, e).error)
    /\ UNCHANGED crudVars
    /\ UNCHANGED batchVars
    /\ UNCHANGED <<issued, listing, applied, returned>>
    /\ UNCHANGED dbVars

\* a service function whose data-access call raises e
ServiceFails(operation, e) ==
    /\ tr = NoTr
    /\ LET called == CrudResult(FALSE, NoDoc, e, store) IN
       tr' = Handled("service", operation, e,
                     CASE operation = "create" ->
                            service_create_product(SampleProduct, called).error
                       [] operation = "update" ->
                            service_update_product(SampleIdentifier, called).error
                       [] operation = "delete" ->
                            service_delete_product(SampleIdentifier, called).error)
    /\ UNCHANGED crudVars
    /\ UNCHANGED batchVars
    /\ UNCHANGED <<issued, listing, applied, returned>>
    /\ UNCHANGED dbVars

\* a partition task whose batch call raises e
BatchCallFails(operation, e, contexts) ==
    /\ tr = NoTr
    /\ tr' = Handled("handle_batch_operation_error", operation, e,
                     handle_batch_operation_error(e, operation, <<"g">>, contexts))
    /\ UNCHANGED crudVars
    /\ UNCHANGED batchVars
    /\ UNCHANGED <<issued, listing, applied, returned>>
    /\ UNCHANGED dbVars

NextErr ==
    \/ \E e \in StorageExceptions \cup DataAccessRaises, operation \in Operations,
          context \in Contexts :
            Translate(e, operation, context)
    \/ \E operation \in {"create", "get", "update", "delete"},
          e \in { x \in StorageExceptions : x.type # "CosmosBatchOperationError" } :
            DataAccessFails(operation, e)
    \/ \E operation \in {"create", "update", "delete"}, e \in DataAccessRaises :
            ServiceFails(operation, e)
    \/ \E operation \in {"create", "update", "delete"}, e \in BatchCallExceptions,
          contexts \in { <<c>> : c \in Contexts } :
            BatchCallFails(operation, e, contexts)

SpecErr == Init /\ [][NextErr]_vars

---------------------------------------------------------------------------
(* Claims about error translation, over the behaviours of SpecErr *)

StorageRejection(status_code) ==
    /\ tr.fn # "none"
    /\ tr.e.type \in {"CosmosHttpResponseError", "CosmosBatchOperationError"}
    /\ tr.e.status_code = status_code

\* the messages that, lower-cased, contain both markers
SkuConstraintMessages ==
    { <<"Unique index constraint", "/sku">>, <<"unique index constraint", "/SKU">>,
      <<"unique index constraint", "/sku">> }

\* C6: a 409 from storage on create or update raises DuplicateSKU when the
\* lower-cased message contains both "unique index constraint" and "/sku",
\* and AlreadyExists (never DuplicateSKU) for every other message.
C6_ConflictKind ==
    (StorageRejection(409) /\ tr.operation \in {"create", "update"})
        => tr.raised.type = IF tr.e.message \in SkuConstraintMessages
                            THEN "ProductDuplicateSKUError"
                            ELSE "ProductAlreadyExistsError"

C6_Witness ==
    /\ StorageRejection(409)
    /\ tr.fn = "crud"
    /\ tr.operation = "create"
    /\ tr.e.message = <<"Unique index constraint", "/sku">>
    /\ tr.raised.type = "ProductDuplicateSKUError"

\* C9: an application error raised by the data-access layer to
\* service.create_product, update_product or delete_product leaves the
\* service as the same error kind.
C9_ServiceKeepsErrorKind ==
    (tr.fn = "service" /\ tr.e.type \in ApplicationErrors)
        => tr.raised.type = tr.e.type

\* C10: a transport failure (service-request error) of the storage client
\* during create is translated to an error kind other than DatabaseError.
C10_TransportIsConnectionError ==
    (tr.fn \in {"crud", "service"} /\ tr.operation = "create"
       /\ tr.e.type = "ServiceRequestError")
        => tr.raised.type # "DatabaseError"

---------------------------------------------------------------------------
(* Claims about batch requests, over the behaviours of SpecBatch *)

\* the partition a client-written category belongs to
Partition(category) ==
    CASE category \in { <<"G">>, <<"g">>, <<" ", "g">> } -> <<"g">>
      [] category = <<"T">>                              -> <<"t">>
      [] OTHER                                           -> <<>>

AllAccepted == \A k \in DOMAIN request.items : request.items[k].category # <<>>

DistinctCategories == { Partition(request.items[k].category) : k \in DOMAIN request.items }

\* the items of one category, in the order of the request
ItemsOf(category_pk) ==
    SelectSeq(request.items, LAMBDA item : Partition(item.category) = category_pk)

ItemKey(item) == IF request.op = "create" THEN item.sku ELSE item.id

OpKey(operation) == IF operation.op = "create" THEN operation.body.sku ELSE operation.item

Succeeded(task) == task.pc = "done" /\ task.error = NoError

\* C3: for a batch request with a non-empty item list whose categories
\* normalize_category accepts, there is one task and one storage batch call
\* per distinct normalized category; each call carries that category as its
\* partition key and exactly the items of that category; and every call has
\* been issued before any task finishes.
C3_OneCallPerCategory ==
    (request.op # "none" /\ AllAccepted) =>
        /\ Len(tasks) = Cardinality(DistinctCategories)
        /\ Len(calls) <= Len(tasks)
        /\ \A k, l \in DOMAIN calls :
              calls[k].partition_key = calls[l].partition_key => k = l
        /\ \A k \in DOMAIN calls :
              /\ calls[k].partition_key \in DistinctCategories
              /\ [j \in DOMAIN calls[k].batch_operations |->
                    OpKey(calls[k].batch_operations[j])]
                 = [j \in DOMAIN ItemsOf(calls[k].partition_key) |->
                      ItemKey(ItemsOf(calls[k].partition_key)[j])]
        /\ (finished # <<>> \/ mainPc = "done") => Len(calls) = Cardinality(DistinctCategories)

\* two calls for two partitions in flight at the same time, one of them
\* carrying items written "G" and "g"
C3_Witness ==
    /\ Len(request.items) = 3
    /\ Cardinality({ request.items[k].category : k \in DOMAIN request.items }) = 3
    /\ Len(calls) = 2
    /\ \A i \in DOMAIN tasks : tasks[i].pc = "calling"

WritesRemain(task) ==
    CASE request.op = "delete" ->
           \A k \in DOMAIN task.results :
              ~ \E d \in store : d.id = task.results[k] /\ d.category = task.category_pk
      [] OTHER -> \A k \in DOMAIN task.results : task.results[k] \in store

PartialFailure ==
    /\ mainPc = "done"
    /\ \E i, j \in DOMAIN tasks : Succeeded(tasks[i]) /\ Failed(tasks[j])

\* C4: when one partition's call succeeds and another's fails, the caller
\* receives the translated error of the failing partition and no results, the
\* successful partition's writes are in storage, and no further storage call
\* has been issued.
C4_PartialFailure ==
    PartialFailure =>
        /\ outcome.kind = "raised"
        /\ outcome.results = <<>>
        /\ outcome.error.type \in ApplicationErrors
        /\ \E j \in DOMAIN tasks : Failed(tasks[j]) /\ outcome.error = tasks[j].error
        /\ \A i \in DOMAIN tasks : Succeeded(tasks[i]) => WritesRemain(tasks[i])
        /\ Len(calls) = Len(tasks)

\* the part of C4 that does not depend on what kind of error is raised
PartialWritesRemain ==
    PartialFailure =>
        /\ outcome.kind = "raised"
        /\ outcome.results = <<>>
        /\ \E j \in DOMAIN tasks : Failed(tasks[j]) /\ outcome.error = tasks[j].error
        /\ \A i \in DOMAIN tasks : Succeeded(tasks[i]) => WritesRemain(tasks[i])
        /\ Len(calls) = Len(tasks)

\* position in the request of the first item of a category
FirstPosition(category_pk) ==
    CHOOSE k \in DOMAIN request.items :
        /\ Partition(request.items[k].category) = category_pk
        /\ \A l \in 1..(k - 1) : Partition(request.items[l].category) # category_pk

SeveralFailed ==
    \E i, j \in DOMAIN tasks : i # j /\ Failed(tasks[i]) /\ Failed(tasks[j])

\* C5: when two or more partition tasks fail, the request raises the error of
\* the failing partition whose category comes first in the item list, whatever
\* the order of completion, and nothing is raised before every task is done.
C5_FirstSubmittedFailure ==
    /\ (tasks # <<>> /\ outcome.kind # "none") =>
           /\ \A i \in DOMAIN tasks : tasks[i].pc = "done"
           /\ Len(finished) = Len(tasks)
    /\ (mainPc = "done" /\ SeveralFailed) =>
           /\ outcome.kind = "raised"
           /\ \E j \in DOMAIN tasks :
                 /\ Failed(tasks[j])
                 /\ \A i \in DOMAIN tasks :
                       Failed(tasks[i]) => FirstPosition(tasks[j].category_pk)
                                             <= FirstPosition(tasks[i].category_pk)
                 /\ outcome.error = tasks[j].error

\* both tasks failed, with different errors, the later-submitted one first
C5_Witness ==
    /\ mainPc = "done"
    /\ SeveralFailed
    /\ finished = <<2, 1>>
    /\ tasks[1].error.type # tasks[2].error.type
    /\ outcome.error = tasks[1].error

RaisedByBatchError ==
    /\ mainPc = "done"
    /\ outcome.kind = "raised"
    /\ outcome.error.type \in ApplicationErrors
    /\ outcome.error.cause.type = "CosmosBatchOperationError"

\* C7: a batch-operation error follows the status rules of the single-item
\* translation: 404 on update or delete raises NotFound, 409 on create or
\* update raises DuplicateSKU or AlreadyExists, 412 on update raises
\* PreconditionFailed.
C7_BatchStatusRules ==
    RaisedByBatchError =>
        /\ (outcome.error.cause.status_code = 404 /\ request.op \in {"update", "delete"})
              => outcome.error.type = "ProductNotFoundError"
        /\ (outcome.error.cause.status_code = 409 /\ request.op \in {"create", "update"})
              => outcome.error.type \in {"ProductDuplicateSKUError",
                                         "ProductAlreadyExistsError"}
        /\ (outcome.error.cause.status_code = 412 /\ request.op = "update")
              => outcome.error.type = "PreconditionFailedError"

\* C8: whatever a partition's storage batch call raises, the batch request
\* ends with an error of the application taxonomy.
C8_BatchRaisesApplicationError ==
    (mainPc = "done" /\ outcome.kind = "raised" /\ tasks # <<>>)
        => outcome.error.type \in ApplicationErrors

---------------------------------------------------------------------------
(* Listing: crud/product_queries.py list_products *)

MaxStored == 6
MaxLimit == 2

\* A stored record of the listing runs.  Record 1 is of another category and
\* record 2 has the null name an accepted update can leave behind; the
\* others are well-formed records of category "g".
ListDoc(i) ==
    [id |-> StrV(ToString(i)),
     category |-> IF i = 1 THEN <<"t">> ELSE <<"g">>,
     name |-> IF i = 2 THEN None ELSE StrV("n1"),
     price |-> FltV("1.00"),
     sku |-> StrV(ToString(i)),
     quantity |-> IntV("1"),
     status |-> ACTIVE,
     last_updated |-> StrV("0"),
     etag |-> StrV(ToString(i))]

ListPool == { ListDoc(i) : i \in 1..MaxStored }

\* a continuation token is an opaque string; the storage reads its position
\* in the result set back from it
TokenAt(position) == StrV(ToString(position))

PositionOf(continuation_token) ==
    IF continuation_token = None THEN 0
    ELSE CHOOSE n \in 0..nextId : TokenAt(n) = continuation_token

\* the records of a set in id order
InIdOrder(docs) ==
    LET ids == [i \in 1..nextId |-> StrV(ToString(i))]
        present == SelectSeq(ids, LAMBDA id : \E d \in docs : d.id = id)
    IN  [k \in DOMAIN present |-> CHOOSE d \in docs : d.id = present[k]]

Min(a, b) == IF a <= b THEN a ELSE b

\* container.query_items(query, parameters, partition_key, max_item_count)
\* .by_page(continuation_token), and the first page of the iterator: the
\* records of the partition that match the query, max_item_count at a time
container_query_items(parameter, partition_key, max_item_count, continuation_token, fault) ==
    LET result_set == InIdOrder({ d \in store : /\ d.category = partition_key
                                                /\ d.category = parameter })
        from == PositionOf(continuation_token)
        to == Min(from + max_item_count, Len(result_set))
    IN  [ok |-> fault = NoStorageError,
         raises |-> fault,
         page |-> IF fault = NoStorageError THEN SubSeq(result_set, from + 1, to) ELSE <<>>,
         continuation_token |-> IF fault = NoStorageError /\ to < Len(result_set)
                                THEN TokenAt(to) ELSE None,
         call |-> StorageCall("query_items", partition_key, NoDoc, <<>>)]

ProductList(ok, items, continuation_token, error, storage_call) ==
    [ok |-> ok, items |-> items, continuation_token |-> continuation_token,
     error |-> error, call |-> storage_call]

\* list_products: the query is given the normalized category as parameter
\* and the category as the caller wrote it as partition key; records that
\* fail ProductResponse.model_validate are left out of the page
list_products(category, continuation_token, max_items, fault) ==
    LET normalized_category == normalize_category(category)
        r == container_query_items(normalized_category.value, category, max_items,
                                   continuation_token, fault)
    IN  IF ~normalized_category.ok
        THEN ProductList(FALSE, <<>>, None, ValueError, NoCall)
        ELSE IF r.ok
        THEN ProductList(TRUE, SelectSeq(r.page, ProductResponseValid),
                         r.continuation_token, NoError, r.call)
        ELSE ProductList(FALSE, <<>>, None,
                         handle_cosmos_error(r.raises, "list", [category |-> category]),
                         r.call)

\* GET /products: one page of a category
ListProducts(category, limit, continuation_token, seen, fault) ==
    /\ LET r == list_products(category, continuation_token, limit, fault) IN
       /\ listing' = [category |-> category, limit |-> limit,
                      continuation_token |-> continuation_token,
                      ok |-> r.ok, items |-> r.items, next |-> r.continuation_token,
                      error |-> r.error, seen |-> seen \o r.items]
       /\ issued' = Issued(r.call, category, None)
    /\ UNCHANGED crudVars
    /\ UNCHANGED batchVars
    /\ UNCHANGED <<applied, returned, tr>>
    /\ UNCHANGED dbVars

\* a client asks for the first page of a category
ListFirst(category, limit, fault) == ListProducts(category, limit, None, <<>>, fault)

\* a client passes the token of the page it got back for the next page
ListNext(fault) ==
    /\ listing.ok
    /\ listing.next # None
    /\ ListProducts(listing.category, listing.limit, listing.next, listing.seen, fault)

ListFaults == { NoStorageError, ServiceRequestError(<<"g">>) }

InitList ==
    /\ store \in SUBSET ListPool
    /\ nextId = MaxStored
    /\ nextEtag = MaxStored
    /\ now = 1
    /\ held = [c \in Clients |-> NoHeld]
    /\ resp = [c \in Clients |-> NoResp]
    /\ tr = NoTr
    /\ InitBatchIdle
    /\ InitIdle

NextList ==
    \/ \E category \in RawCategories, limit \in 1..MaxLimit, fault \in ListFaults :
         ListFirst(category, limit, fault)
    \/ \E fault \in ListFaults : ListNext(fault)

SpecList == InitList /\ [][NextList]_vars

---------------------------------------------------------------------------
\* Helpers applied on their own.  Each action applies one helper to one
\* argument and records what it returned or raised.

MaxLen == 3

\* every string of at most n characters over the given characters
RECURSIVE StringsUpTo(_, _)
StringsUpTo(chars, n) ==
    IF n = 0 THEN { <<>> }
    ELSE LET shorter == StringsUpTo(chars, n - 1)
         IN  shorter \cup { Append(s, c) : s \in shorter, c \in chars }

CategoryChars == { "G", "g", " " }

\* what a caller may hand to normalize_category: a str, or something else
StrArg(s) == [t |-> "str", s |-> s]
NonStrArgs == { [t |-> "NoneType", s |-> <<>>], [t |-> "int", s |-> <<"0">>],
                [t |-> "int", s |-> <<"5">>], [t |-> "list", s |-> <<"g">>] }
CategoryArgs == { StrArg(s) : s \in StringsUpTo(CategoryChars, MaxLen) } \cup NonStrArgs

\* normalize_category on any argument: `not category or not isinstance(category, str)`
normalize_category_of(category) ==
    IF category.t # "str"
    THEN [ok |-> FALSE, raises |-> "ValueError", value |-> <<>>]
    ELSE normalize_category(category.s)

Normalize(category) ==
    /\ applied' = [fn |-> "normalize_category", arg |-> category]
    /\ returned' = normalize_category_of(category)
    /\ UNCHANGED <<issued, listing, tr>>
    /\ UNCHANGED dbVars
    /\ UNCHANGED crudVars
    /\ UNCHANGED batchVars

\* the caller normalizes again what normalize_category returned
NormalizeAgain ==
    /\ applied.fn = "normalize_category"
    /\ returned.ok
    /\ applied.arg # StrArg(returned.value)
    /\ Normalize(StrArg(returned.value))

\* Nested values handed to prepare_decimals_for_cosmos_db: a leaf, or a list
\* or dict of values.  A dict is given by its values in key order.
MaxDepth == 2

Leaf(t, v) == [t |-> t, v |-> v, items |-> <<>>]
ListOf(items) == [t |-> "list", v |-> "list", items |-> items]
DictOf(items) == [t |-> "dict", v |-> "dict", items |-> items]

Leaves == { Leaf("Decimal", "1.5"), Leaf("str", "x") }

RECURSIVE NestedValues(_)
NestedValues(depth) ==
    IF depth = 0 THEN Leaves
    ELSE LET inner == NestedValues(depth - 1)
         IN  inner \cup { ListOf(<<a>>) : a \in inner }
                   \cup { ListOf(<<a, b>>) : a \in inner, b \in inner }
                   \cup { DictOf(<<a>>) : a \in inner }

\* the dicts the helper is called with
NestedDicts == { DictOf(<<a>>) : a \in NestedValues(MaxDepth) }

\* prepare_decimals_for_cosmos_db on any dict: the values of the dict, the
\* dicts below it, and the direct items of its lists
RECURSIVE prepare_decimals_nested(_)
prepare_decimals_nested(data) ==
    DictOf([k \in DOMAIN data.items |->
        LET value == data.items[k] IN
        IF value.t = "Decimal" THEN Leaf("float", value.v)
        ELSE IF value.t = "dict" THEN prepare_decimals_nested(value)
        ELSE IF value.t = "list"
        THEN ListOf([i \in DOMAIN value.items |->
                LET item == value.items[i] IN
                IF item.t = "dict" THEN prepare_decimals_nested(item)
                ELSE IF item.t = "Decimal" THEN Leaf("float", item.v)
                ELSE item])
        ELSE value])

PrepareDecimals(data) ==
    /\ applied' = [fn |-> "prepare_decimals_for_cosmos_db", arg |-> data]
    /\ returned' = [ok |-> TRUE, value |-> prepare_decimals_nested(data)]
    /\ UNCHANGED <<issued, listing, tr>>
    /\ UNCHANGED dbVars
    /\ UNCHANGED crudVars
    /\ UNCHANGED batchVars

\* The exception handlers of the application: exceptions.py
\* register_exception_handlers.  A response body is {"detail": str(exc)}:
\* the phrases of the message, and what an application error quotes.

Detail(text, about) == [text |-> text, about |-> about]
JSONResponse(status_code, detail) == [status_code |-> status_code, detail |-> detail]

GenericDetail == Detail(<<"An unexpected error occurred">>, <<>>)

\* str(exc) of an application error: the message it was built with, or the
\* message of its kind, which quotes `about`
MessageOf(exc) == IF "message" \in DOMAIN exc THEN exc.message ELSE <<exc.type>>

\* return JSONResponse(status_code=exc.status_code, content={"detail": str(exc)})
application_error_handler(exc) ==
    JSONResponse(exc.status_code, Detail(MessageOf(exc), exc.about))

\* DatabaseError(message, original_exception=exc)
DatabaseErrorWith(message, exc) ==
    [type |-> "DatabaseError", status_code |-> AppStatus("DatabaseError"),
     message |-> message, about |-> <<>>, cause |-> exc]

\* db_error = DatabaseError(f"Database error: {str(exc)}"), then the
\* application error handler
cosmos_exception_handler(exc) ==
    application_error_handler(DatabaseErrorWith(<<"Database error: ">> \o exc.message, exc))

cosmos_batch_exception_handler(exc) ==
    application_error_handler(
        DatabaseErrorWith(<<"Batch operation error: ">> \o exc.message, exc))

fallback_exception_handler(exc) == JSONResponse(500, GenericDetail)

\* the handler registered for the class of the exception
exception_handler(exc) ==
    IF exc.type \in ApplicationErrors
    THEN application_error_handler(exc)
    ELSE IF exc.type = "CosmosHttpResponseError" THEN cosmos_exception_handler(exc)
    ELSE IF exc.type = "CosmosBatchOperationError" THEN cosmos_batch_exception_handler(exc)
    ELSE fallback_exception_handler(exc)

\* exceptions a route handler may let through
RouteRaises == DataAccessRaises \cup StorageExceptions \cup { ValueError, ValidationError(<<"g">>) }

HandleException(exc) ==
    /\ applied' = [fn |-> "exception_handler", arg |-> exc]
    /\ returned' = [ok |-> TRUE, value |-> exception_handler(exc)]
    /\ UNCHANGED <<issued, listing, tr>>
    /\ UNCHANGED dbVars
    /\ UNCHANGED crudVars
    /\ UNCHANGED batchVars

\* Bodies a client may send to the update route: each field left out, given
\* a value, or given as null
UpdateBodies ==
    [name : {Unset, StrV("n2"), None}, price : {Unset, DecV("2.00"), None},
     quantity : {Unset, None}, status : {Unset, None}]

\* ProductUpdate.model_validate(body): the payload, or the ValidationError
ProductUpdate(body) ==
    IF check_at_least_one_field(body)
    THEN [ok |-> TRUE, raises |-> "", value |-> body]
    ELSE [ok |-> FALSE, raises |-> "ValidationError", value |-> body]

\* PATCH /products/{id}: the body is validated as a ProductUpdate, and only a
\* valid payload is handed on to update_product
UpdateRequest(body) ==
    LET updated_product == ProductUpdate(body)
        r == update_product(SampleIdentifier, body, NoStorageError)
    IN  /\ applied' = [fn |-> "ProductUpdate", arg |-> body]
        /\ returned' = updated_product
        /\ issued' = IF updated_product.ok THEN Issued(r.call, SampleIdentifier.category, None)
                     ELSE NoIssued
        /\ store' = IF updated_product.ok THEN r.store ELSE store
        /\ UNCHANGED <<nextId, nextEtag, now, held, resp, listing, tr>>
        /\ UNCHANGED dbVars
        /\ UNCHANGED batchVars

\* a change-set in which no field is set: the validator of ProductUpdate
\* rejects it in a request body, and an item built without validation
\* (model_construct, attribute assignment) can still carry it
NoChanges == [name |-> Unset, price |-> Unset, quantity |-> Unset, status |-> Unset]

\* update items as process_category_updates may be handed them
GivenUpdateItems ==
    { [id |-> StrV("1"), category |-> <<"G">>, etag |-> StrV("1"), changes |-> NoChanges],
      [id |-> StrV("2"), category |-> <<"G">>, etag |-> StrV("2"),
       changes |-> [NoChanges EXCEPT !.price = DecV("2.00")]],
      [id |-> StrV("3"), category |-> <<"G">>, etag |-> StrV("3"), changes |-> NoChanges] }

\* process_category_updates up to its storage call: the operations it builds
\* from the items of one category
BuildUpdateOperations(update_items_for_category) ==
    /\ applied' = [fn |-> "update_operations", arg |-> update_items_for_category]
    /\ returned' = [ok |-> TRUE, raises |-> "",
                    value |-> update_operations(update_items_for_category)]
    /\ UNCHANGED <<issued, listing, tr>>
    /\ UNCHANGED dbVars
    /\ UNCHANGED crudVars
    /\ UNCHANGED batchVars

MaxEntries == 2  \* entries of a batch response given to the extraction

\* a product as the storage returns it, and the same with a null name
ReturnedBody == CHOOSE d \in StoredAtStart : d.id = StrV("1")
NullNameBody == [ReturnedBody EXCEPT !.name = None]

\* per-operation entries of a batch response: a status alone, a status with
\* a resourceBody, or the product itself
ResultItems ==
    { [statusCode |-> c] : c \in {200, 201, 424} }
    \cup { [statusCode |-> c, resourceBody |-> b] :
             c \in {200, 201, 424}, b \in {ReturnedBody, NullNameBody} }
    \cup { ReturnedBody, [ReturnedBody EXCEPT !.id = StrV("")] }

BatchResults == UNION { [1..n -> ResultItems] : n \in 1..MaxEntries }

\* the loop of process_category_creates / _updates over batch_results
ExtractProducts(op, batch_results) ==
    /\ applied' = [fn |-> "extract_products", op |-> op, arg |-> batch_results]
    /\ returned' = [ok |-> TRUE, raises |-> "", value |-> extract_products(op, batch_results)]
    /\ UNCHANGED <<issued, listing, tr>>
    /\ UNCHANGED dbVars
    /\ UNCHANGED crudVars
    /\ UNCHANGED batchVars

\* The API-key check: function_app.py get_api_key and check_api_key_for_docs

\* bool(value) of an optional string
Truthy(value) == value \notin {None, StrV("")}

\* a or b
Or(a, b) == IF Truthy(a) THEN a ELSE b

\* what a client may send as the x-functions-key header or the code parameter
ClientKeys == {None, StrV(""), StrV("k1"), StrV("k2")}

\* _get_azure_function_key: the key of the host, or None outside the host
FunctionKeys == {None, StrV(""), StrV("k1")}

Paths == {"/products", "/api/openapi.json"}

HTTPException(status_code) == [ok |-> FALSE, status_code |-> status_code, value |-> None]

\* the key is accepted as soon as one is presented
get_api_key_any_key(azure_expected_key, api_key_from_header, api_key_from_query) ==
    LET client_api_key == Or(api_key_from_header, api_key_from_query) IN
    IF ~Truthy(client_api_key)
    THEN HTTPException(IF Truthy(azure_expected_key) THEN 403 ELSE 401)
    ELSE [ok |-> TRUE, status_code |-> 200, value |-> client_api_key]

get_api_key(azure_expected_key, api_key_from_header, api_key_from_query) ==
    LET client_api_key == Or(api_key_from_header, api_key_from_query) IN
    IF Truthy(azure_expected_key)
    THEN IF ~Truthy(client_api_key) \/ client_api_key # azure_expected_key
         THEN HTTPException(403)
         ELSE [ok |-> TRUE, status_code |-> 200, value |-> client_api_key]
    ELSE IF ~Truthy(client_api_key)
    THEN HTTPException(401)
    ELSE [ok |-> TRUE, status_code |-> 200, value |-> client_api_key]

\* the middleware: 403 for a documentation path when the host has a key and
\* the request does not present it, call_next otherwise
check_api_key_for_docs(path, azure_expected_key, header, code) ==
    LET is_doc_path == path = "/api/openapi.json"
        client_api_key == Or(header, code)
    IN  IF is_doc_path /\ Truthy(azure_expected_key)
           /\ (~Truthy(client_api_key) \/ client_api_key # azure_expected_key)
        THEN "403"
        ELSE "call_next"

\* one request through the middleware and the key dependency of the app
CheckApiKey(path, azure_expected_key, header, code) ==
    /\ applied' = [fn |-> "get_api_key", path |-> path, function_key |-> azure_expected_key,
                   header |-> header, code |-> code]
    /\ returned' = get_api_key(azure_expected_key, header, code)
                      @@ [middleware |-> check_api_key_for_docs(path, azure_expected_key,
                                                                header, code)]
    /\ UNCHANGED <<issued, listing, tr>>
    /\ UNCHANGED dbVars
    /\ UNCHANGED crudVars
    /\ UNCHANGED batchVars

InitPure == Init

\* one helper call on one argument; normalize_category may then be called on
\* what it returned
NextPure ==
    \/ /\ applied = NoApplied
       /\ \/ \E category \in CategoryArgs : Normalize(category)
          \/ \E data \in NestedDicts : PrepareDecimals(data)
          \/ \E exc \in RouteRaises : HandleException(exc)
          \/ \E body \in UpdateBodies : UpdateRequest(body)
          \/ \E items \in ItemLists(GivenUpdateItems) : BuildUpdateOperations(items)
          \/ \E op \in {"create", "update"} : \E batch_results \in BatchResults :
                ExtractProducts(op, batch_results)
          \/ \E path \in Paths, function_key \in FunctionKeys, header, code \in ClientKeys :
                CheckApiKey(path, function_key, header, code)
    \/ NormalizeAgain

SpecPure == InitPure /\ [][NextPure]_vars

---------------------------------------------------------------------------
\* Claims about normalize_category.

IsBlank(s, positions) == \A n \in positions : s[n] = " "

\* a and b are the same letters up to case, between any leading and
\* trailing whitespace
SameButCaseAndPadding(a, b) ==
    \E i \in 1..(Len(a) + 1), k \in 1..(Len(b) + 1) :
      \E m \in 0..Len(a) :
        /\ i + m - 1 <= Len(a)
        /\ k + m - 1 <= Len(b)
        /\ IsBlank(a, (1..(i - 1)) \cup ((i + m)..Len(a)))
        /\ IsBlank(b, (1..(k - 1)) \cup ((k + m)..Len(b)))
        /\ \A n \in 0..(m - 1) : LowerChar(a[i + n]) = LowerChar(b[k + n])

\* v is s without its leading and trailing whitespace, in lower case
IsTrimmedLower(s, v) ==
    /\ v = <<>> \/ (Head(v) # " " /\ v[Len(v)] # " ")
    /\ \E i \in 1..(Len(s) + 1) :
         /\ i + Len(v) - 1 <= Len(s)
         /\ IsBlank(s, (1..(i - 1)) \cup ((i + Len(v))..Len(s)))
         /\ \A n \in 1..Len(v) : v[n] = LowerChar(s[i + n - 1])

\* C17: whatever normalize_category returns, it accepts and returns
\* unchanged; and every accepted string that differs from the argument only
\* in letter case and in leading or trailing whitespace has the same
\* normal form.
C17_NormalizeIdempotent ==
    (applied.fn = "normalize_category" /\ returned.ok) =>
        /\ normalize_category_of(StrArg(returned.value)).ok
        /\ normalize_category_of(StrArg(returned.value)).value = returned.value
        /\ \A other \in CategoryArgs :
             (/\ other.t = "str"
              /\ normalize_category_of(other).ok
              /\ SameButCaseAndPadding(applied.arg.s, other.s))
                => normalize_category_of(other).value = returned.value

\* the two halves of C17 on their own
C17_AcceptsItsOwnResult ==
    (applied.fn = "normalize_category" /\ returned.ok /\ returned.value # <<>>) =>
        /\ normalize_category_of(StrArg(returned.value)).ok
        /\ normalize_category_of(StrArg(returned.value)).value = returned.value

C17_CaseAndPaddingIgnored ==
    (applied.fn = "normalize_category" /\ returned.ok) =>
        \A other \in CategoryArgs :
            (/\ other.t = "str"
             /\ normalize_category_of(other).ok
             /\ SameButCaseAndPadding(applied.arg.s, other.s))
               => normalize_category_of(other).value = returned.value

\* C18: normalize_category fails with ValidationError when its argument is
\* empty or not a string, and otherwise returns the argument trimmed and in
\* lower case.
C18_NormalizeValidationError ==
    applied.fn = "normalize_category" =>
        IF applied.arg.t # "str" \/ applied.arg.s = <<>>
        THEN ~returned.ok /\ returned.raises = "ValidationError"
        ELSE returned.ok /\ IsTrimmedLower(applied.arg.s, returned.value)

\* C18 with the error the code raises
C18_NormalizeValueError ==
    applied.fn = "normalize_category" =>
        IF applied.arg.t # "str" \/ applied.arg.s = <<>>
        THEN ~returned.ok /\ returned.raises = "ValueError"
        ELSE returned.ok /\ IsTrimmedLower(applied.arg.s, returned.value)

---------------------------------------------------------------------------
\* Claims about prepare_decimals_for_cosmos_db.

RECURSIVE HasDecimal(_)
HasDecimal(value) ==
    \/ value.t = "Decimal"
    \/ \E i \in DOMAIN value.items : HasDecimal(value.items[i])

\* after is before with nothing but decimals changed
RECURSIVE NonDecimalsKept(_, _)
NonDecimalsKept(before, after) ==
    IF before.t = "Decimal" THEN TRUE
    ELSE /\ after.t = before.t
         /\ after.v = before.v
         /\ DOMAIN after.items = DOMAIN before.items
         /\ \A i \in DOMAIN before.items : NonDecimalsKept(before.items[i], after.items[i])

RECURSIVE HasListInList(_, _)
HasListInList(value, in_list) ==
    \/ value.t = "list" /\ in_list
    \/ \E i \in DOMAIN value.items : HasListInList(value.items[i], value.t = "list")

\* C19: what the decimal-preparation helper returns holds no decimal at any
\* depth, and every value that is not a decimal is as it was.
C19_NoDecimalLeft ==
    applied.fn = "prepare_decimals_for_cosmos_db" =>
        /\ ~HasDecimal(returned.value)
        /\ NonDecimalsKept(applied.arg, returned.value)

\* C19 for the structures in which no list is an item of a list
C19_HoldsWithoutListInList ==
    (applied.fn = "prepare_decimals_for_cosmos_db" /\ ~HasListInList(applied.arg, FALSE)) =>
        /\ ~HasDecimal(returned.value)
        /\ NonDecimalsKept(applied.arg, returned.value)

\* non-decimal values are kept in every structure
C19_NonDecimalsKept ==
    applied.fn = "prepare_decimals_for_cosmos_db" =>
        NonDecimalsKept(applied.arg, returned.value)

---------------------------------------------------------------------------
\* Claims about the exception handlers.

Unrecognized(exc) == exc.type \notin ApplicationErrors

\* C20: an exception outside the application taxonomy gets a 500 response
\* whose body is the one every other such exception gets, and that holds no
\* text of the exception.
C20_GenericBodyForUnrecognized ==
    (applied.fn = "exception_handler" /\ Unrecognized(applied.arg)) =>
        /\ returned.value.status_code = 500
        /\ \A other \in RouteRaises :
             Unrecognized(other) => exception_handler(other).detail = returned.value.detail
        /\ \A i \in DOMAIN applied.arg.message :
             ~Contains(returned.value.detail.text, applied.arg.message[i])

\* C20 for the exceptions that are not storage exceptions
C20_HoldsOutsideStorageErrors ==
    (/\ applied.fn = "exception_handler"
     /\ Unrecognized(applied.arg)
     /\ applied.arg.type \notin {"CosmosHttpResponseError", "CosmosBatchOperationError"}) =>
        returned.value = JSONResponse(500, GenericDetail)

---------------------------------------------------------------------------
\* Claims about the update payload.

\* no field of the body is set to a value
NoFieldSet(body) == \A field \in UpdateFields : body[field] \in {Unset, None}

\* the fields a patch sets, last_updated apart
PatchedFields(patch_operations) ==
    { patch_operations[i].path : i \in DOMAIN patch_operations } \ {"last_updated"}

\* C16: a payload in which no updatable field is set fails validation, and
\* no patch call is issued for it: every patch call issued sets some field
\* of the payload.
C16_EmptyUpdateRejected ==
    /\ (applied.fn = "ProductUpdate" /\ NoFieldSet(applied.arg)) =>
          /\ ~returned.ok
          /\ returned.raises = "ValidationError"
          /\ issued.call.fn # "patch_item"
    /\ issued.call.fn = "patch_item" => PatchedFields(issued.call.patch_operations) # {}

C16_Witness ==
    /\ applied.fn = "ProductUpdate"
    /\ \A field \in UpdateFields : applied.arg[field] = Unset
    /\ ~returned.ok
    /\ issued = NoIssued

---------------------------------------------------------------------------
\* Claims about the category handed to the storage.

\* the storage call of the last single-item or list request carries the
\* normalized form of the category the client sent
IssuedNormalized ==
    issued.call.fn # "none" =>
        /\ normalize_category(issued.category).ok
        /\ issued.call.partition_key = normalize_category(issued.category).value
        /\ issued.call.fn = "create_item" =>
              issued.call.body.category = normalize_category(issued.category).value

\* every storage batch call carries the normalized form of the category of
\* each item it was built from
BatchCallsNormalized ==
    \A k \in DOMAIN calls :
        /\ \A j \in DOMAIN tasks[calls[k].task].items :
              normalize_category(tasks[calls[k].task].items[j].category).value
                  = calls[k].partition_key
        /\ \A j \in DOMAIN calls[k].batch_operations :
              calls[k].batch_operations[j].op = "create" =>
                  calls[k].batch_operations[j].body.category = calls[k].partition_key

\* C11: every storage call of every operation carries, as partition key and
\* in the record body, the normalized form of the category the client sent.
C11_StorageKeyNormalized == IssuedNormalized /\ BatchCallsNormalized

\* C11 for every operation but the listing
C11_HoldsExceptForList ==
    /\ issued.call.fn # "query_items" => IssuedNormalized
    /\ BatchCallsNormalized

---------------------------------------------------------------------------
\* Claims about the listing.

\* the stored records of the category a list request names
HeldBy(category) == { d \in store : d.category = normalize_category(category).value }

NoDuplicates(seq) == \A i, j \in DOMAIN seq : seq[i] = seq[j] => i = j

\* what a page and the pages before it must look like
PagesRight ==
    /\ (listing.continuation_token = None
        /\ Cardinality(HeldBy(listing.category)) > listing.limit) =>
          /\ Len(listing.items) = listing.limit
          /\ listing.next # None
    /\ NoDuplicates(listing.seen)
    /\ \A i \in DOMAIN listing.seen : listing.seen[i] \in HeldBy(listing.category)
    /\ listing.next = None =>
          { listing.seen[i] : i \in DOMAIN listing.seen } = HeldBy(listing.category)

\* C15: the first page of a category holding more than `limit` items has
\* `limit` items and a token; following the tokens returns no item twice;
\* and when the token is null every item of the category has been returned.
C15_PagesVisitEveryItemOnce == listing.ok => PagesRight

\* C15 when the client writes the category in its normal form and every
\* record of the category is well-formed
C15_HoldsForNormalizedCategory ==
    (/\ listing.ok
     /\ normalize_category(listing.category).value = listing.category
     /\ \A d \in HeldBy(listing.category) : ProductResponseValid(d)) => PagesRight

\* a listing of three pages or more under that condition
C15_ThreePages ==
    /\ listing.ok
    /\ listing.next = None
    /\ Len(listing.seen) > 2 * listing.limit
    /\ normalize_category(listing.category).value = listing.category

---------------------------------------------------------------------------
\* Claims about what an update changes.

SetFields(updates) == { field \in UpdateFields : updates[field] # Unset }

ProtectedPaths == {"id", "category", "etag", "_etag"}

\* post is pre but for the given fields, last_updated and the etag
OnlyChanged(pre, post, fields) ==
    \A k \in DocKeys \ (fields \cup {"last_updated", "etag"}) : post[k] = pre[k]

\* the fields some item of the batch request sets on a stored record
BatchSetFields(d) ==
    UNION { SetFields(request.items[j].changes) :
              j \in { j \in DOMAIN request.items :
                        /\ request.items[j].id = d.id
                        /\ normalize_category(request.items[j].category).value = d.category } }

\* C12: an update, single-item or batch, that changed a stored record
\* changed only the fields its payload set, last_updated and the etag; and
\* no patch operation sent to the storage targets id, category or etag.
C12_UpdateChangesOnlySetFields ==
    /\ \A c \in Clients :
          (resp[c].op = "update" /\ resp[c].post # resp[c].pre) =>
              /\ resp[c].post # NoDoc
              /\ OnlyChanged(resp[c].pre, resp[c].post, SetFields(resp[c].updates))
    /\ issued.call.fn = "patch_item" =>
          \A i \in DOMAIN issued.call.patch_operations :
              issued.call.patch_operations[i].path \notin ProtectedPaths
    /\ request.op = "update" =>
          /\ \A d \in store :
                \E old \in StoredAtStart :
                    /\ old.id = d.id
                    /\ old.category = d.category
                    /\ OnlyChanged(old, d, BatchSetFields(d))
          /\ \A k \in DOMAIN calls :
                \A j \in DOMAIN calls[k].batch_operations :
                    \A i \in DOMAIN calls[k].batch_operations[j].patch_operations :
                        calls[k].batch_operations[j].patch_operations[i].path
                            \notin ProtectedPaths

\* a single-item update that set the price alone and was written
C12_Witness ==
    \E c \in Clients :
        /\ resp[c].op = "update"
        /\ resp[c].ok
        /\ SetFields(resp[c].updates) = {"price"}
        /\ resp[c].post.price # resp[c].pre.price
        /\ resp[c].post.last_updated # resp[c].pre.last_updated
        /\ resp[c].post.etag # resp[c].pre.etag

\* a batch update that was written
C12_BatchWitness ==
    /\ request.op = "update"
    /\ mainPc = "done"
    /\ \E d \in store : \E old \in StoredAtStart :
          old.id = d.id /\ d.price # old.price /\ d.name = old.name

---------------------------------------------------------------------------
\* Claims about the record a create submits.

StoredIds == { d.id : d \in store }

\* a record as the server stamps it: active, with an id the server issued
\* and the time of the request
ServerStamped(body, time) ==
    /\ body.status = ACTIVE
    /\ body.id \in KnownIds
    /\ body.last_updated = StrV(ToString(time))

\* the create operations of the storage batch calls issued so far
BatchCreates ==
    { <<k, j>> \in (DOMAIN calls) \X (1..MaxItems) :
        /\ j \in DOMAIN calls[k].batch_operations
        /\ calls[k].batch_operations[j].op = "create" }

\* C13: the record a single-item create or a batch create submits to the
\* storage has status active whatever status the payload carried, an id the
\* server generated (no stored record and no other record of the request has
\* it), the time of the request as last_updated, and the normalized category.
C13_CreatedRecordStamped ==
    /\ issued.call.fn = "create_item" =>
          /\ ServerStamped(issued.call.body, now - 1)
          /\ issued.call.body.category = normalize_category(issued.category).value
          /\ \A c \in Clients :
                (resp[c].op = "create" /\ resp[c].id = issued.call.body.id) =>
                    \A d \in store \ {resp[c].post} : d.id # issued.call.body.id
    /\ \A kj \in BatchCreates :
          LET body == calls[kj[1]].batch_operations[kj[2]].body
              item == tasks[calls[kj[1]].task].items[kj[2]]
          IN  /\ ServerStamped(body, now)
              /\ body.category = normalize_category(item.category).value
              /\ body.sku = item.sku
              /\ body.id \notin { d.id : d \in StoredAtStart }
              /\ \A other \in BatchCreates :
                    calls[other[1]].batch_operations[other[2]].body.id = body.id
                        => other = kj

\* a single-item create whose payload carried status inactive and a category
\* in upper case, stored as an active record
C13_Witness ==
    /\ issued.call.fn = "create_item"
    /\ issued.status = INACTIVE
    /\ issued.category = <<"G">>
    /\ \E d \in store : d.id = issued.call.body.id /\ d.status = ACTIVE /\ d.category = <<"g">>

\* a batch create with a payload of status inactive among its items
C13_BatchWitness ==
    /\ request.op = "create"
    /\ mainPc = "done"
    /\ \E kj \in BatchCreates :
          /\ tasks[calls[kj[1]].task].items[kj[2]].status = INACTIVE
          /\ \E d \in store : d.id = calls[kj[1]].batch_operations[kj[2]].body.id

---------------------------------------------------------------------------
\* Claims about records that are not stored.

StoredPartitions == { <<"g">>, <<"t">> }

\* a get, update or delete of a pair that is not stored fails with
\* ProductNotFoundError and stores nothing; a delete that succeeds leaves the
\* pair not stored
AbsentIsNotFound ==
    \A c \in Clients :
        /\ (resp[c].op \in {"get", "update", "delete"} /\ resp[c].pre = NoDoc) =>
              /\ ~resp[c].ok
              /\ resp[c].error.type = "ProductNotFoundError"
              /\ resp[c].post = NoDoc
        /\ (resp[c].op = "delete" /\ resp[c].ok) =>
              /\ resp[c].pre # NoDoc
              /\ resp[c].post = NoDoc

\* a pair whose id was issued and that is not stored is not stored after the
\* next step either
AbsentStaysAbsent ==
    \A id \in KnownIds, partition_key \in StoredPartitions :
        DocIn(store, id, partition_key) = NoDoc => DocIn(store', id, partition_key) = NoDoc

\* C14: once a delete of (id, category) has succeeded the pair is not stored
\* and never stored again, and every get, update or delete of a pair that is
\* not stored fails with NotFound, also while the id is stored under another
\* category.
C14_DeletedIsNotFound == []AbsentIsNotFound /\ [][AbsentStaysAbsent]_vars

\* a client updates a product after another client deleted it
C14_Witness ==
    \E c, other \in Clients :
        /\ resp[c].op = "delete"
        /\ resp[c].ok
        /\ resp[other].op = "update"
        /\ resp[other].id = resp[c].id
        /\ normalize_category(resp[other].category) = normalize_category(resp[c].category)
        /\ resp[other].pre = NoDoc
        /\ resp[other].error.type = "ProductNotFoundError"

\* a get of an id under a category other than the one it is stored under
C14_OtherCategoryWitness ==
    \E c \in Clients :
        /\ resp[c].op = "get"
        /\ resp[c].pre = NoDoc
        /\ resp[c].error.type = "ProductNotFoundError"
        /\ \E d \in store : d.id = resp[c].id

\* ---------------------------------------------------------------------------
\* C21: every partition task issues its storage call and finishes, whatever
\* happened to its siblings, before the batch operation returns or raises
\* ---------------------------------------------------------------------------

HasCall(i) == \E k \in DOMAIN calls : calls[k].task = i

\* C21: once the batch operation has returned or raised, every partition task
\* has issued its storage call and has run to its end; a task is never left
\* unstarted or waiting because a sibling failed.
C21_AllTasksFinishBeforeOutcome ==
    mainPc = "done" =>
        \A i \in DOMAIN tasks : tasks[i].pc = "done" /\ HasCall(i) /\ i \in { finished[k] : k \in DOMAIN finished }

\* a task failed first, a sibling completed after it, and the request raised
C21_Witness ==
    /\ mainPc = "done"
    /\ outcome.kind = "raised"
    /\ Len(finished) >= 2
    /\ Failed(tasks[finished[1]])
    /\ ~Failed(tasks[finished[2]])
    /\ HasCall(finished[2])

\* ---------------------------------------------------------------------------
\* C22: a batch update item with no changed field is skipped
\* ---------------------------------------------------------------------------

OperationsFor(batch_operations, update_item) ==
    { k \in DOMAIN batch_operations : batch_operations[k].item = update_item.id }

C22_UnchangedItemPatchesTimestamp ==
    applied.fn = "update_operations" =>
        /\ Len(returned.value) = Len(applied.arg)
        /\ \A i \in DOMAIN applied.arg :
              /\ returned.value[i].item = applied.arg[i].id
              /\ NoFieldSet(applied.arg[i].changes) =>
                    PatchedFields(returned.value[i].patch_operations) = {}
                    /\ Len(returned.value[i].patch_operations) = 1

\* ---------------------------------------------------------------------------
\* C23: no storage batch call with an empty list of operations
\* ---------------------------------------------------------------------------

\* C23: every batch call issued carries at least one operation; a batch
\* operation given an empty item list returns an empty result and issues no
\* call; a task that issued no call is one whose group gave no operation.
C23_NoEmptyBatchCall ==
    /\ \A k \in DOMAIN calls : calls[k].batch_operations # <<>>
    /\ (mainPc = "done" /\ request # NoRequest /\ request.items = <<>>) =>
           /\ outcome.kind = "returned"
           /\ outcome.results = <<>>
           /\ calls = <<>>
    /\ \A i \in DOMAIN tasks :
           (tasks[i].pc = "done" /\ ~HasCall(i)) =>
               batch_operations_for_db(request.op, tasks[i].items, nextId) = <<>>

\* an empty item list was given, and the operation has returned
C23_EmptyListWitness ==
    /\ mainPc = "done"
    /\ request # NoRequest
    /\ request.items = <<>>
    /\ outcome.kind = "returned"
    /\ calls = <<>>

\* a request of two groups has issued its two calls
C23_Witness ==
    /\ mainPc = "done"
    /\ Len(calls) = 2
    /\ \A k \in DOMAIN calls : Len(calls[k].batch_operations) >= 1

\* ---------------------------------------------------------------------------
\* C24: the operations of a batch call keep the order of the input list
\* ---------------------------------------------------------------------------

\* the positions in the input list of the items of one partition, ascending
PositionsOf(category_pk) ==
    SelectSeq([p \in DOMAIN request.items |-> p],
              LAMBDA p : Partition(request.items[p].category) = category_pk)

\* the operation is the one built from the item
StemsFrom(operation, item) ==
    CASE request.op = "create" ->
           /\ operation.op = "create"
           /\ operation.body.sku = item.sku
           /\ operation.body.name = item.name
           /\ operation.body.price.v = item.price.v
      [] request.op = "update" ->
           /\ operation.op = "patch"
           /\ operation.item = item.id
           /\ operation.if_match_etag = item.etag
           /\ PatchedFields(operation.patch_operations)
                = { f \in UpdateFields : item.changes[f] # Unset }
      [] request.op = "delete" ->
           /\ operation.op = "delete"
           /\ operation.item = item.id

\* C24: in every batch call, the j-th operation is built from the j-th item
\* of the call's category in the input list, so two operations of one call
\* stand in the order in which the client listed their items.
C24_OperationsInInputOrder ==
    \A k \in DOMAIN calls :
        LET operations == calls[k].batch_operations
            positions  == PositionsOf(calls[k].partition_key)
        IN  /\ Len(operations) = Len(positions)
            /\ \A j \in DOMAIN operations :
                  StemsFrom(operations[j], request.items[positions[j]])

\* two different items of one category, listed with an item of another
\* category between them, were submitted in one call
C24_Witness ==
    /\ Len(request.items) = 3
    /\ \E k \in DOMAIN calls :
          /\ PositionsOf(calls[k].partition_key) = <<1, 3>>
          /\ Len(calls[k].batch_operations) = 2
          /\ OpKey(calls[k].batch_operations[1]) # OpKey(calls[k].batch_operations[2])
          /\ ~StemsFrom(calls[k].batch_operations[1], request.items[3])

\* ---------------------------------------------------------------------------
\* C28: the failing index of a batch call selects the item that failed
\* ---------------------------------------------------------------------------

CallOf(i) == CHOOSE c \in { calls[k] : k \in DOMAIN calls } : c.task = i

\* the task failed on a batch-operation error that names a failing operation
FailedOnOperation(task) ==
    /\ Failed(task)
    /\ "cause" \in DOMAIN task.error
    /\ task.error.cause.type = "CosmosBatchOperationError"
    /\ task.error.cause.error_index >= 0

InPartition(category_pk) == { d \in store : d.category = category_pk }

\* the storage has a reason to reject the operation of the item at position
\* p of the group: the stored partition, or an earlier item of the group,
\* stands against it
Rejected(task, p) ==
    LET item == task.items[p]
        earlier == { task.items[q] : q \in 1..(p - 1) }
    IN  CASE request.op = "create" ->
               \/ \E d \in InPartition(task.category_pk) : d.sku = item.sku
               \/ \E other \in earlier : other.sku = item.sku
          [] request.op = "update" ->
               \/ ~\E d \in InPartition(task.category_pk) : d.id = item.id /\ d.etag = item.etag
               \/ \E other \in earlier : other.id = item.id
          [] request.op = "delete" ->
               \/ ~\E d \in InPartition(task.category_pk) : d.id = item.id
               \/ \E other \in earlier : other.id = item.id

\* C28: the i-th operation of a partition's batch call is built from the i-th
\* item of the partition's item list; and when the call fails on an
\* operation, the index the storage reports lies in the item list and selects
\* the item whose operation the storage rejected, whose sku the raised
\* conflict error of a create names.
C28_IndexSelectsFailingItem ==
    \A i \in DOMAIN tasks :
        /\ HasCall(i) =>
              /\ Len(CallOf(i).batch_operations) = Len(tasks[i].items)
              /\ \A j \in DOMAIN tasks[i].items :
                    StemsFrom(CallOf(i).batch_operations[j], tasks[i].items[j])
        /\ FailedOnOperation(tasks[i]) =>
              LET p == tasks[i].error.cause.error_index + 1 IN
              /\ p \in DOMAIN tasks[i].items
              /\ Rejected(tasks[i], p)
              /\ \A q \in 1..(p - 1) : ~Rejected(tasks[i], q)
              /\ request.op = "create" => tasks[i].error.about = <<tasks[i].items[p].sku>>

\* a call of two operations on different products failed on its second one
C28_Witness ==
    \E i \in DOMAIN tasks :
        /\ FailedOnOperation(tasks[i])
        /\ tasks[i].error.cause.error_index = 1
        /\ Len(tasks[i].items) >= 2
        /\ ItemKey(tasks[i].items[1]) # ItemKey(tasks[i].items[2])

\* ---------------------------------------------------------------------------
\* C25: which entries of a batch response yield a returned product
\* ---------------------------------------------------------------------------

ExpectedStatus(op) == IF op = "create" THEN 201 ELSE 200

\* the entries that yield a product according to the stated rule
YieldsByRule(op, res_item) ==
    \/ /\ "resourceBody" \in DOMAIN res_item
       /\ res_item.statusCode = ExpectedStatus(op)
    \/ HasId(res_item)

\* the product an entry stands for
ProductOf(res_item) ==
    IF "resourceBody" \in DOMAIN res_item THEN res_item.resourceBody ELSE res_item

\* C25: the returned list holds, in order, the product of every entry that
\* carries a resourceBody with the expected status code (201 for create, 200
\* for update) or directly contains a non-empty id, and nothing else.
C25_EntryYieldsProductByRule ==
    applied.fn = "extract_products" =>
        LET yielding == SelectSeq(applied.arg, LAMBDA res_item : YieldsByRule(applied.op, res_item))
        IN  returned.value = [i \in DOMAIN yielding |-> ProductOf(yielding[i])]

\* what the loop does: the status may also be 200 in a create, and the
\* product must pass the validation of ProductResponse
YieldsInCode(op, res_item) ==
    /\ \/ /\ "resourceBody" \in DOMAIN res_item
          /\ res_item.statusCode \in AcceptedStatus(op)
       \/ /\ ~("resourceBody" \in DOMAIN res_item /\ res_item.statusCode \in AcceptedStatus(op))
          /\ HasId(res_item)
    /\ ProductResponseValid(ProductOf(res_item))

C25_EntryYieldsValidProduct ==
    applied.fn = "extract_products" =>
        LET yielding == SelectSeq(applied.arg, LAMBDA res_item : YieldsInCode(applied.op, res_item))
        IN  /\ returned.ok
            /\ returned.value = [i \in DOMAIN yielding |-> ProductOf(yielding[i])]

\* an update entry with status 200 and a resourceBody yielded no product
C25_ValidStatusDropped ==
    /\ applied.fn = "extract_products"
    /\ applied.op = "update"
    /\ applied.arg = <<[statusCode |-> 200, resourceBody |-> NullNameBody]>>
    /\ returned.value = <<>>

\* ---------------------------------------------------------------------------
\* C27: one storage client per process, one proxy per container
\* ---------------------------------------------------------------------------

Returned(r) == coroutine[r].pc = "done"

\* C27: however the requests calling get_container interleave, the process
\* constructs the storage client at most once, and every call for the
\* container returns the same proxy, the one held in the cache.
C27_OneClientOneProxy ==
    /\ constructed <= 1
    /\ \A r, q \in Requests :
          (Returned(r) /\ Returned(q)
             /\ coroutine[r].container_name = coroutine[q].container_name)
            => coroutine[r].result = coroutine[q].result
    /\ \A r \in Requests :
          Returned(r) => /\ coroutine[r].result # NoProxy
                         /\ coroutine[r].result = containers[coroutine[r].container_name]

\* a first call failed in the constructor, a second one constructed the
\* client, and a third was served from the cache
C27_Witness ==
    /\ constructed = 1
    /\ \E r, q, f \in Requests :
          /\ r # q
          /\ coroutine[f].pc = "raised" /\ coroutine[f].container_name = "products"
          /\ Returned(r) /\ coroutine[r].client # NoClient
          /\ Returned(q) /\ coroutine[q].client = NoClient

\* ---------------------------------------------------------------------------
\* C26: the error translator always raises, DatabaseError when no rule applies
\* ---------------------------------------------------------------------------

IsStorageException(e) == e.type \in {"CosmosHttpResponseError", "CosmosBatchOperationError"}

\* one of the 404, 409 and 412 rules lists the status with the operation
RuleApplies(e, operation) ==
    /\ IsStorageException(e)
    /\ \/ e.status_code = 404 /\ operation \in {"update", "delete", "get"}
       \/ e.status_code = 409 /\ operation \in {"create", "update"}
       \/ e.status_code = 412 /\ operation = "update"

Translated == tr.fn = "handle_cosmos_error"

RaisedOne == tr.raised # NoError /\ tr.raised.type \in ApplicationErrors

DatabaseErrorFromOriginal == tr.raised.type = "DatabaseError" /\ tr.raised.cause = tr.e

\* C26: for every exception and operation name the translator raises one
\* error; when no status rule applies (another status, a status with an
\* operation its rule does not list, or an exception that is not a storage
\* exception) that error is DatabaseError with the original exception as cause.
C26_DatabaseErrorWhenNoRuleApplies ==
    Translated =>
        /\ RaisedOne
        /\ ~RuleApplies(tr.e, tr.operation) => DatabaseErrorFromOriginal

\* the same, for every exception that is not a batch-operation error
C26_HoldsExceptForBatchErrors ==
    Translated =>
        /\ RaisedOne
        /\ tr.raised.cause = tr.e
        /\ (tr.e.type # "CosmosBatchOperationError" /\ ~RuleApplies(tr.e, tr.operation))
              => DatabaseErrorFromOriginal

\* a batch-operation error with status 409 was translated for a delete
C26_BatchConflictOnDelete ==
    /\ Translated
    /\ tr.e.type = "CosmosBatchOperationError"
    /\ tr.e.status_code = 409
    /\ tr.operation = "delete"
    /\ tr.raised.type \in {"ProductAlreadyExistsError", "ProductDuplicateSKUError"}

\* an exception that is not a storage exception became a DatabaseError
C26_NonStorageWitness ==
    /\ Translated
    /\ ~IsStorageException(tr.e)
    /\ DatabaseErrorFromOriginal

\* ---------------------------------------------------------------------------
\* C29: stored products keep the constraints of Product
\* ---------------------------------------------------------------------------

GetOf(d) == get_product_by_id([id |-> d.id, category |-> d.category], NoStorageError)

\* C29: when a batch create or update accepted by the request models has
\* returned successfully, every stored product satisfies the constraints of
\* Product, and a get of it succeeds.
C29_StoredProductsStayValid ==
    (mainPc = "done" /\ outcome.kind = "returned" /\ request.op \in {"create", "update"}) =>
        \A d \in store : ProductResponseValid(d) /\ GetOf(d).ok

\* the same for the single-item operations: whatever creates and updates
\* were accepted, every stored product is valid and a get of it succeeds
C29_StoredProductsValidAfterSingleUpdates ==
    \A d \in store : ProductResponseValid(d) /\ GetOf(d).ok

\* the stored products stay valid as long as no accepted update carries a null
C29_HoldsWithoutNullFields ==
    (\A k \in DOMAIN request.items :
        request.op = "update" => \A f \in UpdateFields : request.items[k].changes[f] # None)
      => \A d \in store : ProductResponseValid(d) /\ GetOf(d).ok

\* a batch update returned successfully and left a product without a name,
\* which a get then fails to return
C29_NullNameStored ==
    /\ mainPc = "done"
    /\ outcome.kind = "returned"
    /\ request.op = "update"
    /\ \E d \in store : d.name = None /\ ~GetOf(d).ok /\ GetOf(d).error.type = "DatabaseError"

\* ---------------------------------------------------------------------------
\* C30: the API-key check
\* ---------------------------------------------------------------------------

\* the key a request presents: its header, or its code parameter when it has
\* no header key
PresentedKey == IF Truthy(applied.header) THEN applied.header ELSE applied.code

\* C30: a request passes the key check only if it carries a non-empty key in
\* the header or the code parameter; when the host supplies a function key
\* the request is admitted exactly when the key it presents equals it, and
\* gets 403 otherwise, from the dependency and, on a documentation path,
\* from the middleware; without a function key a request without a key
\* gets 401.
C30_KeyCheck ==
    applied.fn = "get_api_key" =>
        /\ returned.ok => Truthy(applied.header) \/ Truthy(applied.code)
        /\ Truthy(applied.function_key) =>
              /\ returned.ok <=> PresentedKey = applied.function_key
              /\ ~returned.ok => returned.status_code = 403
              /\ applied.path = "/api/openapi.json" =>
                    (returned.middleware = "403" <=> PresentedKey # applied.function_key)
        /\ (~Truthy(applied.function_key) /\ ~Truthy(applied.header) /\ ~Truthy(applied.code))
              => ~returned.ok /\ returned.status_code = 401

\* the host has a key and the request, presenting it in the code parameter
\* alone, is admitted
C30_Witness ==
    /\ applied.fn = "get_api_key"
    /\ applied.function_key = StrV("k1")
    /\ ~Truthy(applied.header)
    /\ applied.code = StrV("k1")
    /\ returned.ok
    /\ returned.middleware = "call_next"

\* the host has a key and a request with another key gets 403
C30_WrongKeyWitness ==
    /\ applied.fn = "get_api_key"
    /\ applied.function_key = StrV("k1")
    /\ applied.header = StrV("k2")
    /\ ~returned.ok
    /\ returned.status_code = 403

====
